---- MODULE Spec2Model ----
(***************************************************************************)
(* A model of pdfsuite's processing core:                                  *)
(*   - the preview queue (generatePdfPreview / cleanupPdfPreviewWorker),   *)
(*   - the split and merge orchestrators (splitPdfFiles / mergePdfFiles),  *)
(*   - the page-range helpers they use.                                    *)
(* JavaScript runs each callback to completion, so one action is one       *)
(* callback (or one resumption of an async function up to its next await). *)
(***************************************************************************)
EXTENDS Integers, Sequences, FiniteSets, TLC

\* ------------------------------------------------------------------ bounds
MaxRequests == 3          \* preview requests created in one run
MaxFiles == 2             \* source files handed to split / merge
MaxPages == 3             \* pages of one source file
MaxLen == 5               \* characters of an input handed to parsePageRanges
MaxRanges == 3            \* ranges handed to expandRangesToPageIndices
MaxGroupPages == 6        \* page count handed to buildFixedPageGroups
MaxEntries == 3           \* entries handed to the zip service, byte by byte
MaxCopies == 65537        \* entries handed to createZipBlob, all alike
MaxPlanPages == 11        \* pages of a file of a planned split

\* ------------------------------------------------------- program constants
FALLBACK_PREVIEW_URL == 0 \* the placeholder url; the blob url of request r is r

VARIABLES
    \* ---- preview queue (module state of the preview service)
    worker,          \* TRUE when the module holds a Worker, FALSE for null
    isWorkerBusy,
    activeRequest,   \* a request id, or 0 for null
    requestQueue,    \* sequence of request ids
    \* ---- preview queue: the environment and the observations
    pendingReads,    \* requests whose file.arrayBuffer() promise is unsettled
    posted,          \* buffers posted to the live worker and not yet answered
    calls,           \* calls[r]: the resolve/reject calls made on request r
    created,         \* number of requests generatePdfPreview has created
    lastOp,          \* the callback that ran last
    \* ---- split / merge orchestrator: the arguments
    op,              \* "split", "merge" or "none"
    files,           \* sequence of [pages, fault]
    mode, rangeInput, selectedPagesInput, fixedChunkSize, mergeOutputs,
    signalAborted,   \* signal.aborted
    \* ---- split / merge orchestrator: the locals of the running call
    pc,              \* the await the call is suspended at
    fileIndex,       \* 1-based index of the file being processed
    groups,          \* page groups of the current file still to materialize
    outputs,         \* outputs pushed so far
    warnings,        \* warnings pushed so far
    mergedPages,     \* pages appended to mergedDoc / mergedPdf
    progress,        \* the onProgress calls made so far
    result,          \* how the returned promise settled
    \* ---- split / merge orchestrator: observations
    abortedAt,       \* the pc at which the signal was aborted ("never" if not)
    readsStarted,    \* number of file.arrayBuffer() calls made
    \* ---- useMergePdf: the hook around mergePdfFiles
    hookPc,              \* "ready", "running" (at the await) or "returned"
    abortControllerRef,  \* 1 when it holds the run's controller, 0 for null
    isLoading,
    progressPercent,
    published,           \* the managed tool result: "null", "previous", "single"
    toasts,              \* the toasts shown so far
    \* ---- the hook's handler invoked a second time
    laterPc,             \* "idle", "refused" (guard), "running" or "returned"
    laterAborted,        \* the second run's signal
    \* ---- parsePageRanges applied to one input
    parseInput,      \* the input string, a sequence of characters
    parseMaxPages,
    parseResult,     \* what the call returned ("not-called" before it)
    \* ---- the other pure functions, applied to one input
    utilCalled,      \* the function that has been applied, "none" before it
    expandRanges,    \* expandRangesToPageIndices: ranges
    expandDedupe,    \* expandRangesToPageIndices: options.dedupe
    expandResult,
    groupPageCount,  \* buildFixedPageGroups: pageCount
    groupChunkSize,  \* buildFixedPageGroups: chunkSize
    groupResult,
    \* ---- zipService applied to one entry list
    zipEntries,      \* sequence of [filename, data]: code points and bytes
    zipEstimate,     \* what estimateZipSizeBytes returned, -1 before the call
    zipResult,       \* "none", then "blob" or "throw" for createZipBlob
    zipBlob,         \* the bytes of the blob createZipBlob returned
    \* ---- createZipBlob applied to many copies of one entry
    zipCopies,       \* entries.length
    zipHeaders,      \* the local and the central headers written
    zipEnd,          \* the bytes of the end-of-central-directory record
    \* ---- the split page's planned summary
    plannedSummary   \* what createSplitPlannedSummary returned for the arguments

previewVars == <<worker, isWorkerBusy, activeRequest, requestQueue,
                 pendingReads, posted, calls, created, lastOp>>
argVars == <<op, files, mode, rangeInput, selectedPagesInput, fixedChunkSize,
             mergeOutputs>>
runVars == <<signalAborted, pc, fileIndex, groups, outputs, warnings,
             mergedPages, progress, result, abortedAt, readsStarted>>
laterVars == <<laterPc, laterAborted>>
hookVars == <<hookPc, abortControllerRef, isLoading, progressPercent, published,
              toasts, laterVars>>
parseVars == <<parseInput, parseMaxPages, parseResult>>
zipVars == <<zipEntries, zipEstimate, zipResult, zipBlob, zipCopies, zipHeaders,
             zipEnd>>
planVars == <<plannedSummary>>
utilVars == <<utilCalled, expandRanges, expandDedupe, expandResult,
              groupPageCount, groupChunkSize, groupResult, zipVars, planVars>>
vars == <<previewVars, argVars, runVars, hookVars, parseVars, utilVars>>

\* No summary computed yet.
NoSummary ==
    [phase |-> "none", outputCount |-> 0, outputNames |-> <<>>,
     hiddenOutputNameCount |-> 0, zipAvailable |-> FALSE, note |-> "none"]
PlanUnused == plannedSummary = NoSummary

ZipCopiesUnused ==
    /\ zipCopies = 0
    /\ zipHeaders = [local |-> 0, central |-> 0]
    /\ zipEnd = <<>>

ZipUnused ==
    /\ zipEntries = <<>>
    /\ zipEstimate = 0 - 1
    /\ zipResult = "none"
    /\ zipBlob = <<>>
    /\ ZipCopiesUnused

\* No pure function has been applied.
UtilUnused ==
    /\ ZipUnused
    /\ PlanUnused
    /\ utilCalled = "none"
    /\ expandRanges = <<>>
    /\ expandDedupe = FALSE
    /\ expandResult = <<>>
    /\ groupPageCount = 0
    /\ groupChunkSize = [finite |-> TRUE, halves |-> 2]
    /\ groupResult = <<>>

\* The state of the hook before handleMergePdfs is invoked.
HookReady(prev) ==
    /\ hookPc = "ready"
    /\ abortControllerRef = 0
    /\ isLoading = FALSE
    /\ progressPercent = 0
    /\ published = prev
    /\ toasts = <<>>
    /\ laterPc = "idle"
    /\ laterAborted = FALSE

HookUnused == HookReady("null")

ParseUnused ==
    /\ parseInput = <<>>
    /\ parseMaxPages = 0
    /\ parseResult = [ok |-> FALSE, ranges |-> <<>>,
                      error |-> [kind |-> "not-called", token |-> <<>>,
                                 maxPages |-> 0]]

Range(s) == {s[i] : i \in DOMAIN s}

\* ====================================================== PREVIEW QUEUE ====

Requests == 1..MaxRequests

ResolveCall(url) == [kind |-> "resolve", url |-> url]
\* reject(new Error('Preview generation cancelled.')); a reject carries no url.
RejectCall == [kind |-> "reject", url |-> FALLBACK_PREVIEW_URL]

PreviewInit ==
    /\ worker = FALSE
    /\ isWorkerBusy = FALSE
    /\ activeRequest = 0
    /\ requestQueue = <<>>
    /\ pendingReads = {}
    /\ posted = {}
    /\ calls = [r \in Requests |-> <<>>]
    /\ created = 0
    /\ lastOp = "init"

\* processQueue, from the state (busy, active, queue, reads) its caller left.
processQueue(busy, active, queue, reads) ==
    IF busy \/ queue = <<>>
    THEN [busy |-> busy, active |-> active, queue |-> queue, reads |-> reads]
    ELSE [busy |-> TRUE, active |-> Head(queue), queue |-> Tail(queue),
          reads |-> reads \cup {Head(queue)}]

\* The module state after processQueue.
Drained(st) ==
    /\ isWorkerBusy' = st.busy
    /\ activeRequest' = st.active
    /\ requestQueue' = st.queue
    /\ pendingReads' = st.reads

\* activeRequest.resolve(url) when there is an active request.
ResolveActive(url) ==
    IF activeRequest = 0 THEN calls
    ELSE [calls EXCEPT ![activeRequest] = Append(@, ResolveCall(url))]

\* generatePdfPreview: push the request, then processQueue.
generatePdfPreview ==
    /\ created < MaxRequests
    /\ created' = created + 1
    /\ Drained(processQueue(isWorkerBusy, activeRequest,
                            Append(requestQueue, created + 1), pendingReads))
    /\ lastOp' = "enqueue"
    /\ UNCHANGED <<worker, posted, calls>>

\* The .then of file.arrayBuffer(): getWorker() (created when null) and postMessage.
ReadDone(r) ==
    /\ r \in pendingReads
    /\ pendingReads' = pendingReads \ {r}
    /\ worker' = TRUE
    /\ posted' = posted \cup {r}
    /\ lastOp' = "readDone"
    /\ UNCHANGED <<isWorkerBusy, activeRequest, requestQueue, calls, created>>

\* The .catch of file.arrayBuffer().
ReadFailRejects(r) ==
    /\ r \in pendingReads
    /\ calls' = IF activeRequest = 0 THEN calls
                ELSE [calls EXCEPT ![activeRequest] = Append(@, RejectCall)]
    /\ Drained(processQueue(FALSE, 0, requestQueue, pendingReads \ {r}))
    /\ lastOp' = "readFail"
    /\ UNCHANGED <<worker, posted, created>>

ReadFail(r) ==
    /\ r \in pendingReads
    /\ calls' = ResolveActive(FALLBACK_PREVIEW_URL)
    /\ Drained(processQueue(FALSE, 0, requestQueue, pendingReads \ {r}))
    /\ lastOp' = "readFail"
    /\ UNCHANGED <<worker, posted, created>>

\* What the worker answers for the buffer of request r.
Responses == {"ok", "nourl", "fail"}
ResponseUrl(r, resp) == IF resp = "ok" THEN r ELSE FALLBACK_PREVIEW_URL

\* worker.onmessage, for the answer to the buffer of request r.
WorkerMessageNoDrain(r, resp) ==
    /\ worker
    /\ r \in posted
    /\ posted' = posted \ {r}
    /\ lastOp' = IF resp = "ok" THEN "msgOk" ELSE "msgFail"
    /\ IF activeRequest = 0
       THEN UNCHANGED <<isWorkerBusy, activeRequest, calls>>
       ELSE /\ calls' = ResolveActive(ResponseUrl(r, resp))
            /\ isWorkerBusy' = FALSE
            /\ activeRequest' = 0
    /\ UNCHANGED <<worker, created, requestQueue, pendingReads>>

WorkerMessage(r, resp) ==
    /\ worker
    /\ r \in posted
    /\ posted' = posted \ {r}
    /\ lastOp' = IF resp = "ok" THEN "msgOk" ELSE "msgFail"
    /\ IF activeRequest = 0
       THEN UNCHANGED <<isWorkerBusy, activeRequest, requestQueue,
                        pendingReads, calls>>
       ELSE /\ calls' = ResolveActive(ResponseUrl(r, resp))
            /\ Drained(processQueue(FALSE, 0, requestQueue, pendingReads))
    /\ UNCHANGED <<worker, created>>

\* worker.onerror: resolve the active request with the fallback, terminate.
WorkerErrorKeepsActive ==
    /\ worker
    /\ calls' = ResolveActive(FALLBACK_PREVIEW_URL)
    /\ worker' = FALSE
    /\ posted' = {}
    /\ Drained(processQueue(FALSE, activeRequest, requestQueue, pendingReads))
    /\ lastOp' = "error"
    /\ UNCHANGED created

WorkerError ==
    /\ worker
    /\ calls' = ResolveActive(FALLBACK_PREVIEW_URL)
    /\ worker' = FALSE
    /\ posted' = {}
    /\ Drained(processQueue(FALSE, 0, requestQueue, pendingReads))
    /\ lastOp' = "error"
    /\ UNCHANGED created

\* cleanupPdfPreviewWorker: terminateWorker, rejectActiveRequest, reject the queue.
CleanupOnlyWithWorker ==
    /\ IF worker
       THEN /\ worker' = FALSE
            /\ posted' = {}
            /\ isWorkerBusy' = FALSE
            /\ requestQueue' = <<>>
            /\ UNCHANGED <<activeRequest, calls>>
       ELSE UNCHANGED <<worker, posted, isWorkerBusy, requestQueue,
                        activeRequest, calls>>
    /\ lastOp' = "cleanup"
    /\ UNCHANGED <<pendingReads, created>>

cleanupPdfPreviewWorker ==
    /\ worker' = FALSE
    /\ posted' = {}
    /\ isWorkerBusy' = FALSE
    /\ activeRequest' = 0
    /\ requestQueue' = <<>>
    /\ calls' = [r \in Requests |->
                   IF r = activeRequest \/ r \in Range(requestQueue)
                   THEN Append(calls[r], RejectCall) ELSE calls[r]]
    /\ lastOp' = "cleanup"
    /\ UNCHANGED <<pendingReads, created>>

\* The orchestrator's variables while only the preview queue runs.
OrchestratorUnused ==
    /\ op = "none"
    /\ files = <<>>
    /\ mode = "range"
    /\ rangeInput = <<>>
    /\ selectedPagesInput = <<>>
    /\ fixedChunkSize = [finite |-> TRUE, halves |-> 2]
    /\ mergeOutputs = FALSE
    /\ signalAborted = FALSE
    /\ pc = "idle"
    /\ fileIndex = 0
    /\ groups = <<>>
    /\ outputs = <<>>
    /\ warnings = <<>>
    /\ mergedPages = <<>>
    /\ progress = <<>>
    /\ result = "pending"
    /\ abortedAt = "never"
    /\ readsStarted = 0

PreviewSpecInit ==
    PreviewInit /\ OrchestratorUnused /\ HookUnused /\ ParseUnused /\ UtilUnused

PreviewNext ==
    \/ generatePdfPreview /\ UNCHANGED <<argVars, runVars, hookVars, parseVars, utilVars>>
    \/ (\E r \in Requests : ReadDone(r)) /\ UNCHANGED <<argVars, runVars, hookVars, parseVars, utilVars>>
    \/ (\E r \in Requests : ReadFail(r)) /\ UNCHANGED <<argVars, runVars, hookVars, parseVars, utilVars>>
    \/ (\E r \in Requests, resp \in Responses : WorkerMessage(r, resp))
          /\ UNCHANGED <<argVars, runVars, hookVars, parseVars, utilVars>>
    \/ WorkerError /\ UNCHANGED <<argVars, runVars, hookVars, parseVars, utilVars>>
    \/ cleanupPdfPreviewWorker /\ UNCHANGED <<argVars, runVars, hookVars, parseVars, utilVars>>

PreviewSpec == PreviewSpecInit /\ [][PreviewNext]_vars

\* The preview queue when cleanupPdfPreviewWorker is never called, every file
\* read settles and the worker answers every buffer posted to it.
PreviewLiveNext ==
    \/ generatePdfPreview /\ UNCHANGED <<argVars, runVars, hookVars, parseVars, utilVars>>
    \/ (\E r \in Requests : ReadDone(r)) /\ UNCHANGED <<argVars, runVars, hookVars, parseVars, utilVars>>
    \/ (\E r \in Requests : ReadFail(r)) /\ UNCHANGED <<argVars, runVars, hookVars, parseVars, utilVars>>
    \/ (\E r \in Requests, resp \in Responses : WorkerMessage(r, resp))
          /\ UNCHANGED <<argVars, runVars, hookVars, parseVars, utilVars>>
    \/ WorkerError /\ UNCHANGED <<argVars, runVars, hookVars, parseVars, utilVars>>

PreviewLiveSpec ==
    /\ PreviewSpecInit
    /\ [][PreviewLiveNext]_vars
    /\ \A r \in Requests : WF_previewVars(ReadDone(r) \/ ReadFail(r))
    /\ \A r \in Requests : WF_previewVars(\E resp \in Responses : WorkerMessage(r, resp))

\* ------------------------------------------------ preview queue: claims

Last(s) == s[Len(s)]
Settled(r) == calls[r] # <<>>
Resolved(r) == \E i \in DOMAIN calls[r] : calls[r][i].kind = "resolve"

\* C1: at most one buffer has been posted to the worker and is still unanswered.
C1_AtMostOneRenderInFlight == Cardinality(posted) <= 1

\* C2: on every request at most one resolve/reject call is made, and a request
\* that got its call is neither queued nor active (in no later state either).
C2_SettledOnceAndDiscarded ==
    \A r \in Requests :
        /\ Len(calls[r]) <= 1
        /\ Settled(r) => (r # activeRequest /\ r \notin Range(requestQueue))

C2_Witness ==
    /\ lastOp = "error"
    /\ \E r \in Requests : calls[r] = <<RejectCall>>
    /\ \E r \in Requests : calls[r] = <<ResolveCall(FALLBACK_PREVIEW_URL)>>
    /\ \E r \in Requests : calls[r] = <<ResolveCall(r)>>

\* C3: right after cleanupPdfPreviewWorker the queue is empty, no request is
\* active, the busy flag is off, the worker is null, and every request that was
\* queued or active has had its reject called.
C3_CleanupResetsAndRejects ==
    [][lastOp' = "cleanup" =>
         /\ requestQueue' = <<>>
         /\ activeRequest' = 0
         /\ ~isWorkerBusy'
         /\ ~worker'
         /\ \A r \in Requests :
              (r = activeRequest \/ r \in Range(requestQueue))
                 => calls'[r] = Append(calls[r], RejectCall)]_vars

C3_Witness ==
    /\ lastOp = "cleanup"
    /\ pendingReads # {}
    /\ Cardinality({r \in Requests : calls[r] = <<RejectCall>>}) >= 2

\* C4: a failed worker answer, a worker error event and a failed file read each
\* resolve the active request with the fallback url, and then the head of the
\* queue (if any) is started, else the busy flag is off; only
\* cleanupPdfPreviewWorker calls reject.
C4_FailureResolvesWithFallback ==
    [][/\ (lastOp' \in {"readFail", "msgFail", "error"} /\ activeRequest # 0) =>
            /\ calls'[activeRequest]
                 = Append(calls[activeRequest], ResolveCall(FALLBACK_PREVIEW_URL))
            /\ requestQueue = <<>> => (~isWorkerBusy' /\ activeRequest' = 0)
            /\ requestQueue # <<>> =>
                 /\ isWorkerBusy'
                 /\ activeRequest' = Head(requestQueue)
                 /\ Head(requestQueue) \in pendingReads'
       /\ \A r \in Requests :
            (calls'[r] # calls[r] /\ Last(calls'[r]).kind = "reject")
               => lastOp' = "cleanup"]_vars

C4_Witness ==
    /\ lastOp = "readFail"
    /\ activeRequest = 2
    /\ calls[1] = <<ResolveCall(FALLBACK_PREVIEW_URL)>>
    /\ 2 \in pendingReads

\* C5: without cleanupPdfPreviewWorker, when reads settle and the worker
\* answers, every request generatePdfPreview created is eventually resolved
\* (no further generatePdfPreview call is needed for that).
C5_EveryRequestResolved ==
    \A r \in Requests :
        (created >= r) ~> Resolved(r)

C5_Witness ==
    /\ created = MaxRequests
    /\ \A r \in Requests : calls[r] = <<ResolveCall(r)>>
    /\ lastOp = "msgOk"

\* ================================================== PAGE-RANGE HELPERS ====
\* A string is a sequence of one-character strings.

Digits == {"0", "1", "2", "3", "4", "5", "6", "7", "8", "9"}
DigitValue(c) ==
    CASE c = "0" -> 0 [] c = "1" -> 1 [] c = "2" -> 2 [] c = "3" -> 3
      [] c = "4" -> 4 [] c = "5" -> 5 [] c = "6" -> 6 [] c = "7" -> 7
      [] c = "8" -> 8 [] c = "9" -> 9

\* String.prototype.trim, over the one whitespace character of the model.
RECURSIVE TrimStart(_)
TrimStart(s) == IF s # <<>> /\ Head(s) = " " THEN TrimStart(Tail(s)) ELSE s
RECURSIVE TrimEnd(_)
TrimEnd(s) ==
    IF s # <<>> /\ s[Len(s)] = " " THEN TrimEnd(SubSeq(s, 1, Len(s) - 1)) ELSE s
Trim(s) == TrimEnd(TrimStart(s))

\* String.prototype.split(','): the parts between the commas, empty parts kept.
RECURSIVE SplitComma(_, _)
SplitComma(s, part) ==
    IF s = <<>> THEN <<part>>
    ELSE IF Head(s) = "," THEN <<part>> \o SplitComma(Tail(s), <<>>)
    ELSE SplitComma(Tail(s), Append(part, Head(s)))

\* .map((part) => part.trim()).filter(Boolean)
RECURSIVE TrimAndFilter(_)
TrimAndFilter(parts) ==
    IF parts = <<>> THEN <<>>
    ELSE LET t == Trim(Head(parts))
         IN  (IF t = <<>> THEN <<>> ELSE <<t>>) \o TrimAndFilter(Tail(parts))

AllDigits(s) == s # <<>> /\ \A i \in DOMAIN s : s[i] \in Digits

\* Number(digits) for a string of decimal digits.
RECURSIVE Number(_)
Number(ds) ==
    IF ds = <<>> THEN 0
    ELSE 10 * Number(SubSeq(ds, 1, Len(ds) - 1)) + DigitValue(ds[Len(ds)])

RangeTokenPatternMatchesAll(token) ==
    [matched |-> TRUE, first |-> SelectSeq(token, LAMBDA c : c \in Digits),
     second |-> <<>>]

\* token.match(/^(\d+)(?:-(\d+))?$/): the two groups, or no match.
rangeTokenPattern(token) ==
    IF AllDigits(token)
    THEN [matched |-> TRUE, first |-> token, second |-> <<>>]
    ELSE IF \E i \in DOMAIN token :
                /\ token[i] = "-"
                /\ AllDigits(SubSeq(token, 1, i - 1))
                /\ AllDigits(SubSeq(token, i + 1, Len(token)))
         THEN LET i == CHOOSE j \in DOMAIN token : token[j] = "-"
              IN  [matched |-> TRUE, first |-> SubSeq(token, 1, i - 1),
                   second |-> SubSeq(token, i + 1, Len(token))]
         ELSE [matched |-> FALSE, first |-> <<>>, second |-> <<>>]

Message(kind) == [kind |-> kind, token |-> <<>>, maxPages |-> 0]
TokenMessage(kind, token, maxPages) ==
    [kind |-> kind, token |-> token, maxPages |-> maxPages]
ParseError(msg) == [ok |-> FALSE, ranges |-> <<>>, error |-> msg]
ParseOk(ranges) == [ok |-> TRUE, ranges |-> ranges, error |-> Message("none")]

\* The for-of loop of parsePageRanges over the tokens left, ranges pushed so far.
\* Number() of a digit string within the bounds is always an integer, so of the
\* Number.isInteger / < 1 test only the comparisons with 1 can fail.
RECURSIVE ParseTokens(_, _, _)
ParseTokens(tokens, maxPages, ranges) ==
    IF tokens = <<>> THEN ParseOk(ranges)
    ELSE LET token == Head(tokens)
             m == rangeTokenPattern(token)
             start == Number(m.first)
             end == IF m.second # <<>> THEN Number(m.second) ELSE start
         IN  IF ~m.matched
             THEN ParseError(TokenMessage("malformed-token", token, 0))
             ELSE IF start < 1 \/ end < 1
             THEN ParseError(TokenMessage("not-positive-integer", token, 0))
             ELSE IF start > end
             THEN ParseError(TokenMessage("start-after-end", token, 0))
             ELSE IF end > maxPages
             THEN ParseError(TokenMessage("exceeds-page-count", token, maxPages))
             ELSE ParseTokens(Tail(tokens), maxPages,
                              Append(ranges, [start |-> start, end |-> end]))

ParsePageRangesOnePageMore(input, maxPages) ==
    LET raw == Trim(input)
        tokens == TrimAndFilter(SplitComma(raw, <<>>))
    IN  IF raw = <<>> THEN ParseError(Message("empty-input"))
        ELSE IF tokens = <<>> THEN ParseError(Message("empty-input"))
        ELSE ParseTokens(tokens, maxPages + 1, <<>>)

parsePageRanges(input, maxPages) ==
    LET raw == Trim(input)
        tokens == TrimAndFilter(SplitComma(raw, <<>>))
    IN  IF raw = <<>> THEN ParseError(Message("empty-input"))
        ELSE IF tokens = <<>> THEN ParseError(Message("empty-input"))
        ELSE ParseTokens(tokens, maxPages, <<>>)

RangeIndicesOneBased(range) ==
    [k \in 1..(range.end - range.start + 1) |-> range.start + k - 1]

\* The indices start-1 .. end-1 of one range.
RangeIndices(range) == [k \in 1..(range.end - range.start + 1) |-> range.start + k - 2]

\* expandRangesToPageIndices(ranges, {dedupe}).
RECURSIVE ExpandFrom(_, _, _)
ExpandFrom(indices, dedupe, acc) ==
    IF indices = <<>> THEN acc
    ELSE IF dedupe /\ Head(indices) \in Range(acc)
         THEN ExpandFrom(Tail(indices), dedupe, acc)
         ELSE ExpandFrom(Tail(indices), dedupe, Append(acc, Head(indices)))

RECURSIVE Flatten(_)
Flatten(seqs) == IF seqs = <<>> THEN <<>> ELSE Head(seqs) \o Flatten(Tail(seqs))

ExpandKeepsDuplicates(ranges, dedupe) ==
    ExpandFrom(Flatten([k \in DOMAIN ranges |-> RangeIndices(ranges[k])]), FALSE, <<>>)

expandRangesToPageIndices(ranges, dedupe) ==
    ExpandFrom(Flatten([k \in DOMAIN ranges |-> RangeIndices(ranges[k])]), dedupe, <<>>)

\* Math.floor of a chunk size given in halves; NaN and the infinities are not finite.
Floor(chunkSize) == chunkSize.halves \div 2

\* buildFixedPageGroups(pageCount, chunkSize).
RECURSIVE FixedGroupsFrom(_, _, _)
FixedGroupsFrom(start, pageCount, size) ==
    IF start >= pageCount THEN <<>>
    ELSE LET endExclusive == IF start + size < pageCount THEN start + size ELSE pageCount
         IN  <<[k \in 1..(endExclusive - start) |-> start + k - 1]>>
               \o FixedGroupsFrom(start + size, pageCount, size)

BuildFixedPageGroupsRoundsUp(pageCount, chunkSize) ==
    IF ~chunkSize.finite \/ Floor(chunkSize) < 1 THEN <<>>
    ELSE FixedGroupsFrom(0, pageCount, (chunkSize.halves + 1) \div 2)

buildFixedPageGroups(pageCount, chunkSize) ==
    IF ~chunkSize.finite \/ Floor(chunkSize) < 1 THEN <<>>
    ELSE FixedGroupsFrom(0, pageCount, Floor(chunkSize))

\* ==================================================== FILE NAMES ====

\* String(n) for a natural number.
DigitChar(d) ==
    CASE d = 0 -> "0" [] d = 1 -> "1" [] d = 2 -> "2" [] d = 3 -> "3"
      [] d = 4 -> "4" [] d = 5 -> "5" [] d = 6 -> "6" [] d = 7 -> "7"
      [] d = 8 -> "8" [] d = 9 -> "9"
RECURSIVE NumberToString(_)
NumberToString(n) ==
    IF n < 10 THEN <<DigitChar(n)>> ELSE NumberToString(n \div 10) \o <<DigitChar(n % 10)>>

\* The names of the source files, by position in the list.
SourceNames ==
    << <<"a", ".", "p", "d", "f">>,
       <<"B", ".", "P", "D", "F">>,
       <<".", "p", "d", "f">>,
       <<"a", ".", "p", "d", "f">> >>
FileName(i) == SourceNames[((i - 1) % Len(SourceNames)) + 1]

\* filename.replace(/\.pdf$/i, '').trim() || 'document'
HasPdfExtension(name) ==
    /\ Len(name) >= 4
    /\ name[Len(name) - 3] = "."
    /\ name[Len(name) - 2] \in {"p", "P"}
    /\ name[Len(name) - 1] \in {"d", "D"}
    /\ name[Len(name)] \in {"f", "F"}
getPdfBaseName(name) ==
    LET stripped == IF HasPdfExtension(name) THEN SubSeq(name, 1, Len(name) - 4)
                    ELSE name
    IN  IF Trim(stripped) = <<>> THEN <<"d", "o", "c", "u", "m", "e", "n", "t">>
        ELSE Trim(stripped)

\* files.length > 1 ? `${fileIndex + 1}_${baseName}` : baseName  (i is 1-based)
OutputPrefixAlwaysIndexed(i, fileCount) ==
    NumberToString(i) \o <<"_">> \o getPdfBaseName(FileName(i))

outputPrefix(i, fileCount) ==
    IF fileCount > 1 THEN NumberToString(i) \o <<"_">> \o getPdfBaseName(FileName(i))
    ELSE getPdfBaseName(FileName(i))

DotPdf == <<".", "p", "d", "f">>
PagesName(prefix, start, end) ==
    prefix \o <<"_", "p", "a", "g", "e", "s", "_">> \o NumberToString(start) \o <<"-">>
           \o NumberToString(end) \o DotPdf
PartName(prefix, k) == prefix \o <<"_", "p", "a", "r", "t", "_">> \o NumberToString(k) \o DotPdf
PageName(prefix, n) == prefix \o <<"_", "p", "a", "g", "e", "_">> \o NumberToString(n) \o DotPdf
SplitOutputName ==
    <<"s", "p", "l", "i", "t", "_", "o", "u", "t", "p", "u", "t">> \o DotPdf

\* ============================================ SPLIT / MERGE ORCHESTRATORS ====
\* The document engine: reading a file, loading it and copying its pages can
\* each throw (a file's "fault"); PDFDocument.create and save do not.

\* The name of the error a rejected call carries: ProcessingAbortError sets
\* 'AbortError', the errors thrown with new Error(...) keep 'Error'.
ErrorName(res) == IF res = "abort" THEN "AbortError" ELSE "Error"
\* isAbortError(error), for the error of a call that rejected.
isAbortError(res) == res \notin {"pending", "fulfilled"} /\ ErrorName(res) = "AbortError"

\* throwIfAborted(signal): whether it throws a ProcessingAbortError.
ThrowIfAbortedNever(aborted) == FALSE
throwIfAborted(aborted) == aborted

Faults == {"none", "read", "load", "copy"}
\* A file whose read or load throws never shows its page count; a file whose
\* copy throws has pages, one or many.
FileDescriptors ==
    {d \in [pages : 0..MaxPages, fault : Faults] :
        \/ d.fault = "none"
        \/ d.fault \in {"read", "load"} /\ d.pages = 1
        \/ d.fault = "copy" /\ d.pages \in {1, MaxPages}}
FileLists == UNION {[1..n -> FileDescriptors] : n \in 0..MaxFiles}

Modes == {"range", "fixed", "extract-all", "extract-selected"}

\* The range / selection inputs tried: "1", "1-2", "2,1-2", "1,1", "x", " , ".
PageInputs ==
    { <<"1">>, <<"1", "-", "2">>, <<"2", ",", "1", "-", "2">>, <<"1", ",", "1">>,
      <<"x">>, <<" ", ",", " ">> }
DefaultPageInput == <<"1">>

\* The chunk sizes tried, in halves: -1, 0.5, 1, 1.5, 2 and NaN.
ChunkSizes ==
    {[finite |-> TRUE, halves |-> h] : h \in {-2, 1, 2, 3, 4}}
        \cup {[finite |-> FALSE, halves |-> 0]}
DefaultChunkSize == [finite |-> TRUE, halves |-> 4]

PagesOf(i, indices) == [k \in DOMAIN indices |-> <<i, indices[k]>>]
Group(indices, filename) == [indices |-> indices, filename |-> filename]
Plan(warning, gs, checkFirst) ==
    [warning |-> warning, groups |-> gs, checkFirst |-> checkFirst]

\* splitPdfFiles, the mode branches for file i (which has pageCount >= 1) up to
\* the first await: the warning pushed (kind "none" when none), the page groups
\* to materialize, and whether throwIfAborted runs before the first of them.
SplitPlanOf(i, fileCount, pageCount, md, rangeIn, selectedIn, chunk, merge) ==
    LET prefix == outputPrefix(i, fileCount)
    IN  CASE md = "range" ->
               LET parsed == parsePageRanges(rangeIn, pageCount)
               IN  IF ~parsed.ok THEN Plan(parsed.error, <<>>, TRUE)
                   ELSE Plan(Message("none"),
                             [k \in DOMAIN parsed.ranges |->
                                Group(RangeIndices(parsed.ranges[k]),
                                      PagesName(prefix, parsed.ranges[k].start,
                                                parsed.ranges[k].end))],
                             TRUE)
          [] md = "fixed" ->
               LET gs == buildFixedPageGroups(pageCount, chunk)
               IN  Plan(Message("none"),
                        [k \in DOMAIN gs |-> Group(gs[k], PartName(prefix, k))],
                        TRUE)
          [] md = "extract-all" ->
               Plan(Message("none"),
                    [k \in 1..pageCount |-> Group(<<k - 1>>, PageName(prefix, k))],
                    TRUE)
          [] OTHER ->
               LET parsed == parsePageRanges(selectedIn, pageCount)
                   selectedIndices == expandRangesToPageIndices(parsed.ranges, TRUE)
               IN  IF ~parsed.ok THEN Plan(parsed.error, <<>>, TRUE)
                   ELSE IF selectedIndices = <<>>
                   THEN Plan(Message("no-pages-selected"), <<>>, TRUE)
                   ELSE IF merge
                   THEN Plan(Message("none"),
                             <<Group(selectedIndices, SplitOutputName)>>, FALSE)
                   ELSE Plan(Message("none"),
                             [k \in DOMAIN selectedIndices |->
                                Group(<<selectedIndices[k]>>,
                                      PageName(prefix, selectedIndices[k] + 1))],
                             TRUE)

SplitPlan(i) ==
    SplitPlanOf(i, Len(files), files[i].pages, mode, rangeInput,
                selectedPagesInput, fixedChunkSize, mergeOutputs)

Warning(i, msg) == [fileName |-> FileName(i), message |-> msg]
Output(filename, pages) == [filename |-> filename, pages |-> pages]

\* The locals of the running call after one resumption.
Goto(p, i, gs, outs, warns, merged, prog, res) ==
    /\ pc' = p
    /\ fileIndex' = i
    /\ groups' = gs
    /\ outputs' = outs
    /\ warnings' = warns
    /\ mergedPages' = merged
    /\ progress' = prog
    /\ result' = res

\* The finally block: completed += 1; onProgress({completed, total, currentFileName}).
FinallyKeepsCount(i, prog) ==
    Append(prog, [completed |-> Len(prog), total |-> Len(files),
                  currentFileName |-> FileName(i)])

Finally(i, prog) ==
    Append(prog, [completed |-> Len(prog) + 1, total |-> Len(files),
                  currentFileName |-> FileName(i)])

\* The promise rejects (res) or fulfils ("fulfilled").
Settle(res, outs, warns, merged, prog) ==
    Goto("done", fileIndex, <<>>, outs, warns, merged, prog, res)

\* ---- splitPdfFiles

\* The end of splitPdfFiles: outputs.length === 0 throws, else return.
SplitReturnsEmpty(outs, warns, merged, prog) ==
    Settle("fulfilled", outs, warns, merged, prog)

SplitReturn(outs, warns, merged, prog) ==
    IF outs = <<>> THEN Settle("no-outputs", outs, warns, merged, prog)
    ELSE Settle("fulfilled", outs, warns, merged, prog)

\* After the loop: throwIfAborted, then the merged document is saved if it has pages.
SplitAfterLoopNoSave(outs, warns, merged, prog) ==
    IF throwIfAborted(signalAborted) THEN Settle("abort", outs, warns, merged, prog)
    ELSE SplitReturn(outs, warns, merged, prog)

SplitAfterLoop(outs, warns, merged, prog) ==
    IF throwIfAborted(signalAborted) THEN Settle("abort", outs, warns, merged, prog)
    ELSE IF mergeOutputs /\ merged # <<>>
    THEN Goto("save", fileIndex, <<>>, outs, warns, merged, prog, "pending")
    ELSE SplitReturn(outs, warns, merged, prog)

\* The loop condition and the top of the body for file i: throwIfAborted, then
\* await fileMeta.file.arrayBuffer().
SplitIteration(i, outs, warns, merged, prog) ==
    IF i > Len(files)
    THEN SplitAfterLoop(outs, warns, merged, prog) /\ UNCHANGED readsStarted
    ELSE IF throwIfAborted(signalAborted)
    THEN Settle("abort", outs, warns, merged, prog) /\ UNCHANGED readsStarted
    ELSE /\ Goto("read", i, <<>>, outs, warns, merged, prog, "pending")
         /\ readsStarted' = readsStarted + 1

\* The catch block for a non-abort error, the finally block, the next iteration.
SplitCatchRethrows(i, msg) ==
    /\ Settle("error", outputs, warnings, mergedPages, Finally(i, progress))
    /\ UNCHANGED readsStarted

SplitCatch(i, msg) ==
    SplitIteration(i + 1, outputs, Append(warnings, Warning(i, msg)),
                   mergedPages, Finally(i, progress))

\* throwIfAborted inside the try: the catch rethrows, the finally block runs.
ThrowAbortInTry(i) ==
    /\ Settle("abort", outputs, warnings, mergedPages, Finally(i, progress))
    /\ UNCHANGED readsStarted

\* The group loop of a file from the groups gs still to do: throwIfAborted (when
\* the branch has one), then await the copy of the first of them.
SplitGroups(i, gs, check, outs, merged) ==
    IF gs = <<>>
    THEN SplitIteration(i + 1, outs, warnings, merged, Finally(i, progress))
    ELSE IF check /\ throwIfAborted(signalAborted)
    THEN /\ Settle("abort", outs, warnings, merged, Finally(i, progress))
         /\ UNCHANGED readsStarted
    ELSE /\ Goto("group", i, gs, outs, warnings, merged, progress, "pending")
         /\ UNCHANGED readsStarted

SplitStart ==
    /\ op = "split" /\ pc = "idle"
    /\ IF throwIfAborted(signalAborted)
       THEN Settle("abort", outputs, warnings, mergedPages, progress)
            /\ UNCHANGED readsStarted
       ELSE IF mergeOutputs
       THEN Goto("create", 0, <<>>, <<>>, <<>>, <<>>, <<>>, "pending")
            /\ UNCHANGED readsStarted
       ELSE SplitIteration(1, <<>>, <<>>, <<>>, <<>>)
    /\ UNCHANGED <<signalAborted, abortedAt>>

\* await PDFDocument.create() for the merged document has resolved.
SplitCreated ==
    /\ op = "split" /\ pc = "create"
    /\ SplitIteration(1, outputs, warnings, mergedPages, progress)
    /\ UNCHANGED <<signalAborted, abortedAt>>

\* await fileMeta.file.arrayBuffer() has settled.
SplitRead ==
    /\ op = "split" /\ pc = "read"
    /\ IF files[fileIndex].fault = "read"
       THEN SplitCatch(fileIndex, Message("read-error"))
       ELSE IF throwIfAborted(signalAborted) THEN ThrowAbortInTry(fileIndex)
       ELSE Goto("load", fileIndex, <<>>, outputs, warnings, mergedPages,
                 progress, "pending") /\ UNCHANGED readsStarted
    /\ UNCHANGED <<signalAborted, abortedAt>>

\* await PDFDocument.load() has settled.
SplitLoaded ==
    /\ op = "split" /\ pc = "load"
    /\ LET i == fileIndex
           plan == SplitPlan(i)
       IN  IF files[i].fault = "load" THEN SplitCatch(i, Message("load-error"))
           ELSE IF files[i].pages = 0 THEN SplitCatch(i, Message("no-pages"))
           ELSE IF plan.warning.kind # "none" THEN SplitCatch(i, plan.warning)
           ELSE SplitGroups(i, plan.groups, plan.checkFirst, outputs, mergedPages)
    /\ UNCHANGED <<signalAborted, abortedAt>>

\* await addPagesWithRotation / createOutputPdf for the first group has settled.
SplitGroupDone ==
    /\ op = "split" /\ pc = "group"
    /\ LET i == fileIndex
           g == Head(groups)
       IN  IF files[i].fault = "copy" THEN SplitCatch(i, Message("copy-error"))
           ELSE IF mergeOutputs
           THEN SplitGroups(i, Tail(groups), TRUE, outputs,
                            mergedPages \o PagesOf(i, g.indices))
           ELSE SplitGroups(i, Tail(groups), TRUE,
                            Append(outputs, Output(g.filename, PagesOf(i, g.indices))),
                            mergedPages)
    /\ UNCHANGED <<signalAborted, abortedAt>>

\* await mergedDoc.save() has resolved.
SplitSaved ==
    /\ op = "split" /\ pc = "save"
    /\ SplitReturn(Append(outputs, Output(SplitOutputName, mergedPages)),
                   warnings, mergedPages, progress)
    /\ UNCHANGED <<signalAborted, abortedAt, readsStarted>>

\* ---- mergePdfFiles

\* After the loop: throwIfAborted, the zero-page check, then await mergedPdf.save().
MergeAfterLoopNoPageCheck(warns, merged, prog) ==
    IF throwIfAborted(signalAborted) THEN Settle("abort", <<>>, warns, merged, prog)
    ELSE Goto("save", fileIndex, <<>>, <<>>, warns, merged, prog, "pending")

MergeAfterLoop(warns, merged, prog) ==
    IF throwIfAborted(signalAborted) THEN Settle("abort", <<>>, warns, merged, prog)
    ELSE IF merged = <<>> THEN Settle("no-pages", <<>>, warns, merged, prog)
    ELSE Goto("save", fileIndex, <<>>, <<>>, warns, merged, prog, "pending")

\* The top of the loop body for file i: throwIfAborted, then await arrayBuffer().
MergeIteration(i, warns, merged, prog) ==
    IF i > Len(files)
    THEN MergeAfterLoop(warns, merged, prog) /\ UNCHANGED readsStarted
    ELSE IF throwIfAborted(signalAborted)
    THEN Settle("abort", <<>>, warns, merged, prog) /\ UNCHANGED readsStarted
    ELSE /\ Goto("read", i, <<>>, <<>>, warns, merged, prog, "pending")
         /\ readsStarted' = readsStarted + 1

\* The catch block for a non-abort error, the finally block, the next iteration.
MergeCatchRethrows(i, msg) ==
    /\ Settle("error", <<>>, warnings, mergedPages, Finally(i, progress))
    /\ UNCHANGED readsStarted

MergeCatch(i, msg) ==
    MergeIteration(i + 1, Append(warnings, Warning(i, msg)), mergedPages,
                   Finally(i, progress))

MergeStart ==
    /\ op = "merge" /\ pc = "idle"
    /\ IF throwIfAborted(signalAborted)
       THEN Settle("abort", outputs, warnings, mergedPages, progress)
       ELSE Goto("create", 0, <<>>, <<>>, <<>>, <<>>, <<>>, "pending")
    /\ UNCHANGED <<signalAborted, abortedAt, readsStarted>>

\* await PDFDocument.create() has resolved.
MergeCreated ==
    /\ op = "merge" /\ pc = "create"
    /\ MergeIteration(1, warnings, mergedPages, progress)
    /\ UNCHANGED <<signalAborted, abortedAt>>

\* await fileMeta.file.arrayBuffer() has settled.
MergeRead ==
    /\ op = "merge" /\ pc = "read"
    /\ IF files[fileIndex].fault = "read"
       THEN MergeCatch(fileIndex, Message("read-error"))
       ELSE IF throwIfAborted(signalAborted) THEN ThrowAbortInTry(fileIndex)
       ELSE Goto("load", fileIndex, <<>>, outputs, warnings, mergedPages,
                 progress, "pending") /\ UNCHANGED readsStarted
    /\ UNCHANGED <<signalAborted, abortedAt>>

\* await PDFDocument.load() has settled.
MergeLoaded ==
    /\ op = "merge" /\ pc = "load"
    /\ LET i == fileIndex
       IN  IF files[i].fault = "load" THEN MergeCatch(i, Message("load-error"))
           ELSE IF files[i].pages = 0 THEN MergeCatch(i, Message("no-pages"))
           ELSE Goto("copy", i, <<>>, outputs, warnings, mergedPages, progress,
                     "pending") /\ UNCHANGED readsStarted
    /\ UNCHANGED <<signalAborted, abortedAt>>

\* await mergedPdf.copyPages(doc, indices) has settled; the pages are added.
MergeCopied ==
    /\ op = "merge" /\ pc = "copy"
    /\ LET i == fileIndex
       IN  IF files[i].fault = "copy" THEN MergeCatch(i, Message("copy-error"))
           ELSE MergeIteration(i + 1, warnings,
                               mergedPages \o [k \in 1..files[i].pages |-> <<i, k - 1>>],
                               Finally(i, progress))
    /\ UNCHANGED <<signalAborted, abortedAt>>

\* await mergedPdf.save() has resolved: throwIfAborted, then return.
MergeSavedNoCheck ==
    /\ op = "merge" /\ pc = "save"
    /\ Settle("fulfilled", <<Output(<<>>, mergedPages)>>, warnings, mergedPages,
              progress)
    /\ UNCHANGED <<signalAborted, abortedAt, readsStarted>>

MergeSaved ==
    /\ op = "merge" /\ pc = "save"
    /\ IF throwIfAborted(signalAborted)
       THEN Settle("abort", outputs, warnings, mergedPages, progress)
       ELSE Settle("fulfilled", <<Output(<<>>, mergedPages)>>, warnings,
                   mergedPages, progress)
    /\ UNCHANGED <<signalAborted, abortedAt, readsStarted>>

\* ---- the caller

\* controller.abort() while the call is suspended at an await.
Abort ==
    /\ pc \notin {"idle", "done"}
    /\ ~signalAborted
    /\ signalAborted' = TRUE
    /\ abortedAt' = pc
    /\ UNCHANGED <<pc, fileIndex, groups, outputs, warnings, mergedPages,
                   progress, result, readsStarted>>

\* The arguments of a call; the inputs a mode does not read keep their default.
SplitArguments ==
    /\ op = "split"
    /\ mode \in Modes
    /\ rangeInput \in (IF mode = "range" THEN PageInputs ELSE {DefaultPageInput})
    /\ selectedPagesInput \in
         (IF mode = "extract-selected" THEN PageInputs ELSE {DefaultPageInput})
    /\ fixedChunkSize \in (IF mode = "fixed" THEN ChunkSizes ELSE {DefaultChunkSize})
    /\ mergeOutputs \in BOOLEAN

MergeArguments ==
    /\ op = "merge"
    /\ mode = "range"
    /\ rangeInput = DefaultPageInput
    /\ selectedPagesInput = DefaultPageInput
    /\ fixedChunkSize = DefaultChunkSize
    /\ mergeOutputs = FALSE

Init ==
    /\ PreviewInit
    /\ HookUnused
    /\ ParseUnused
    /\ UtilUnused
    /\ files \in FileLists
    /\ SplitArguments \/ MergeArguments
    /\ signalAborted \in BOOLEAN
    /\ abortedAt = IF signalAborted THEN "before" ELSE "never"
    /\ pc = "idle"
    /\ fileIndex = 0
    /\ groups = <<>>
    /\ outputs = <<>>
    /\ warnings = <<>>
    /\ mergedPages = <<>>
    /\ progress = <<>>
    /\ result = "pending"
    /\ readsStarted = 0

Next ==
    \/ SplitStart /\ UNCHANGED <<previewVars, argVars, hookVars, parseVars, utilVars>>
    \/ SplitCreated /\ UNCHANGED <<previewVars, argVars, hookVars, parseVars, utilVars>>
    \/ SplitRead /\ UNCHANGED <<previewVars, argVars, hookVars, parseVars, utilVars>>
    \/ SplitLoaded /\ UNCHANGED <<previewVars, argVars, hookVars, parseVars, utilVars>>
    \/ SplitGroupDone /\ UNCHANGED <<previewVars, argVars, hookVars, parseVars, utilVars>>
    \/ SplitSaved /\ UNCHANGED <<previewVars, argVars, hookVars, parseVars, utilVars>>
    \/ MergeStart /\ UNCHANGED <<previewVars, argVars, hookVars, parseVars, utilVars>>
    \/ MergeCreated /\ UNCHANGED <<previewVars, argVars, hookVars, parseVars, utilVars>>
    \/ MergeRead /\ UNCHANGED <<previewVars, argVars, hookVars, parseVars, utilVars>>
    \/ MergeLoaded /\ UNCHANGED <<previewVars, argVars, hookVars, parseVars, utilVars>>
    \/ MergeCopied /\ UNCHANGED <<previewVars, argVars, hookVars, parseVars, utilVars>>
    \/ MergeSaved /\ UNCHANGED <<previewVars, argVars, hookVars, parseVars, utilVars>>
    \/ Abort /\ UNCHANGED <<previewVars, argVars, hookVars, parseVars, utilVars>>

Spec == Init /\ [][Next]_vars

\* ------------------------------------------- split / merge: claims

Finished(o) == op = o /\ pc = "done"
WarningsNaming(i) == SelectSeq(warnings, LAMBDA w : w.fileName = FileName(i))

\* C6: a splitPdfFiles call whose signal is aborted while it runs rejects with
\* an abort error.
C6_SplitAbortRejects ==
    (Finished("split") /\ abortedAt \notin {"never", "before"}) => result = "abort"

\* C7: a mergePdfFiles call whose signal is aborted while it runs (at any of its
\* awaits) rejects with an abort error and never fulfils.
C7_MergeAbortRejects ==
    (Finished("merge") /\ abortedAt \notin {"never", "before"}) => result = "abort"

C7_Witness ==
    Finished("merge") /\ abortedAt = "save" /\ result = "abort" /\ Len(progress) = 2

\* C8: called with a signal that is already aborted, splitPdfFiles and
\* mergePdfFiles reject with an abort error at once: no file is read, onProgress
\* is not called, nothing is returned.
C8_AlreadyAbortedRejectsFirst ==
    abortedAt = "before" =>
        /\ pc \in {"idle", "done"}
        /\ pc = "done" => result = "abort"
        /\ readsStarted = 0
        /\ progress = <<>>
        /\ outputs = <<>> /\ warnings = <<>>

C8_Witness ==
    /\ Finished("split") /\ abortedAt = "before" /\ result = "abort"
    /\ Len(files) = 2 /\ files[1].pages > 0 /\ files[1].fault = "none"

\* Whether awaiting the copy of a page group of file i is reached, without abort.
CopyAttempted(i) ==
    /\ files[i].fault \notin {"read", "load"}
    /\ files[i].pages > 0
    /\ SplitPlan(i).warning.kind = "none"
    /\ SplitPlan(i).groups # <<>>

\* The three kinds of file C9 names: no pages, input that does not parse against
\* the file's page count, a read / load / copy that throws.
Unusable(i) ==
    \/ files[i].fault \in {"read", "load"}
    \/ files[i].pages = 0
    \/ (mode \in {"range", "extract-selected"} /\ SplitPlan(i).warning.kind # "none")
    \/ (files[i].fault = "copy" /\ CopyAttempted(i))

ExpectedOutputs(i) ==
    [k \in DOMAIN SplitPlan(i).groups |->
        Output(SplitPlan(i).groups[k].filename,
               PagesOf(i, SplitPlan(i).groups[k].indices))]
ExpectedPages(i) ==
    Flatten([k \in DOMAIN SplitPlan(i).groups |->
                PagesOf(i, SplitPlan(i).groups[k].indices)])
OutputsOf(i) ==
    SelectSeq(outputs, LAMBDA o : \E k \in DOMAIN o.pages : o.pages[k][1] = i)
MergedPagesOf(i) == SelectSeq(mergedPages, LAMBDA pg : pg[1] = i)

\* C9: in a splitPdfFiles run that is not cancelled, every unusable file gets one
\* warning with its name, the loop still visits every file, every usable file's
\* outputs are in the result, and the call fails only when there is no output.
C9_PerFileFailuresAreWarnings ==
    (Finished("split") /\ abortedAt = "never") =>
        /\ \A i \in DOMAIN files : Unusable(i) => Len(WarningsNaming(i)) = 1
        /\ Len(progress) = Len(files)
        /\ result \in {"fulfilled", "no-outputs"}
        /\ result = "no-outputs" <=> outputs = <<>>
        /\ result = "fulfilled" =>
             \A i \in DOMAIN files :
                ~Unusable(i) =>
                    IF mergeOutputs
                    THEN /\ MergedPagesOf(i) = ExpectedPages(i)
                         /\ outputs = <<Output(SplitOutputName, mergedPages)>>
                    ELSE OutputsOf(i) = ExpectedOutputs(i)

C9_Witness ==
    /\ Finished("split") /\ abortedAt = "never" /\ result = "fulfilled"
    /\ Len(files) = 2 /\ mode = "range" /\ ~mergeOutputs
    /\ files[1].fault = "load" /\ files[2].fault = "none"
    /\ Len(warnings) = 1 /\ Len(outputs) = 2

\* C10: in fixed mode with a chunk size whose floor is below 1 (or NaN), every
\* source file with at least one page gets a warning naming it.
C10_InvalidChunkSizeWarns ==
    (/\ Finished("split") /\ abortedAt = "never" /\ mode = "fixed"
     /\ (~fixedChunkSize.finite \/ Floor(fixedChunkSize) < 1)) =>
        \A i \in DOMAIN files :
            files[i].pages >= 1 => Len(WarningsNaming(i)) >= 1

\* What the caller gets: {outputs, warnings} when the promise fulfils, nothing
\* when it rejects.
Returned ==
    IF result = "fulfilled" THEN [outputs |-> outputs, warnings |-> warnings]
    ELSE [outputs |-> <<>>, warnings |-> <<>>]

\* C11: splitPdfFiles fulfils only with at least one output; a run that reaches
\* the end without cancellation and has produced no output rejects with the
\* no-outputs error, which is not an abort error, and returns no warnings.
C11_FulfilsOnlyWithOutputs ==
    Finished("split") =>
        /\ result = "fulfilled" => Len(Returned.outputs) >= 1
        /\ (outputs = <<>> /\ ~signalAborted) =>
              /\ result = "no-outputs"
              /\ ~isAbortError(result)
              /\ Returned.warnings = <<>>

C11_Witness ==
    /\ Finished("split") /\ result = "no-outputs" /\ abortedAt = "never"
    /\ Len(files) = 2 /\ Len(warnings) = 2 /\ mergeOutputs

\* Whether the arguments select at least one page of some file that can be used.
SomePageSelected ==
    \E i \in DOMAIN files : ~Unusable(i) /\ ExpectedPages(i) # <<>>

\* C12: with mergeOutputs the only output ever produced is split_output.pdf:
\* exactly that one when at least one page was selected, none when no page was.
C12_MergedOutputIsSingle ==
    (op = "split" /\ mergeOutputs) =>
        /\ outputs \in {<<>>, <<Output(SplitOutputName, mergedPages)>>}
        /\ result = "fulfilled" =>
              /\ Len(Returned.outputs) = 1
              /\ Returned.outputs[1].filename = SplitOutputName
              /\ SomePageSelected
        /\ (pc = "done" /\ abortedAt = "never") =>
              /\ SomePageSelected => (result = "fulfilled" /\ Len(outputs) = 1)
              /\ ~SomePageSelected => (result = "no-outputs" /\ outputs = <<>>)

C12_Witness ==
    /\ Finished("split") /\ mergeOutputs /\ result = "fulfilled"
    /\ Len(files) = 2 /\ mode = "range" /\ Len(mergedPages) >= 3
    /\ abortedAt = "never"

Filenames(outs) == [k \in DOMAIN outs |-> outs[k].filename]
CeilDiv(a, b) == (a + b - 1) \div b

\* The prefix C13 and C14 give: the base name for a single source file,
\* '{1-based file index}_{base name}' otherwise.
ClaimedPrefix(i) ==
    IF Len(files) = 1 THEN getPdfBaseName(FileName(i))
    ELSE NumberToString(i) \o <<"_">> \o getPdfBaseName(FileName(i))

\* The names C13 gives for file i with parts parts in fixed mode, and one per
\* parsed range in range mode.
ClaimedSplitNames(i, parts) ==
    IF Unusable(i) THEN <<>>
    ELSE IF mode = "range"
    THEN LET ranges == parsePageRanges(rangeInput, files[i].pages).ranges
         IN  [k \in DOMAIN ranges |->
                PagesName(ClaimedPrefix(i), ranges[k].start, ranges[k].end)]
    ELSE [k \in 1..parts |-> PartName(ClaimedPrefix(i), k)]

ValidChunkSize == fixedChunkSize.finite /\ fixedChunkSize.halves >= 2

\* C13 as stated: without mergeOutputs the outputs are, file by file and group by
\* group, '{prefix}_pages_{start}-{end}.pdf' per parsed range in range mode and
\* '{prefix}_part_{k}.pdf' for k = 1..ceil(pageCount/chunkSize) in fixed mode.
C13_PartsPerChunkSize ==
    (Finished("split") /\ result = "fulfilled" /\ ~mergeOutputs
        /\ mode \in {"range", "fixed"}) =>
        Filenames(outputs) =
            Flatten([i \in DOMAIN files |->
                ClaimedSplitNames(i,
                    IF ValidChunkSize
                    THEN CeilDiv(2 * files[i].pages, fixedChunkSize.halves)
                    ELSE 0)])

\* C13 amended: the same with k = 1..ceil(pageCount/floor(chunkSize)).
C13_PartsPerFlooredChunkSize ==
    (Finished("split") /\ result = "fulfilled" /\ ~mergeOutputs
        /\ mode \in {"range", "fixed"}) =>
        Filenames(outputs) =
            Flatten([i \in DOMAIN files |->
                ClaimedSplitNames(i,
                    IF ValidChunkSize
                    THEN CeilDiv(files[i].pages, Floor(fixedChunkSize))
                    ELSE 0)])

C13_Witness ==
    /\ Finished("split") /\ result = "fulfilled" /\ ~mergeOutputs
    /\ mode = "fixed" /\ fixedChunkSize.halves = 3
    /\ Len(files) = 2 /\ files[1].pages = 3 /\ files[2].pages = 2
    /\ Len(outputs) = 5

\* The pages the selection input names for file i, in input order, repeats kept.
SelectedRaw(i) ==
    LET ranges == parsePageRanges(selectedPagesInput, files[i].pages).ranges
    IN  Flatten([k \in DOMAIN ranges |-> RangeIndices(ranges[k])])
FirstIndexOf(s, x) == CHOOSE k \in DOMAIN s : s[k] = x /\ \A j \in 1..(k - 1) : s[j] # x

\* C14: in extract-selected mode without mergeOutputs a usable file yields one
\* single-page output per distinct selected page, named '{prefix}_page_{n}.pdf',
\* in order of first occurrence in the selection input; files keep list order.
C14_OneOutputPerDistinctPage ==
    (Finished("split") /\ result = "fulfilled" /\ ~mergeOutputs
        /\ mode = "extract-selected") =>
        /\ \A k \in DOMAIN outputs :
              /\ Len(outputs[k].pages) = 1
              /\ outputs[k].filename
                   = PageName(ClaimedPrefix(outputs[k].pages[1][1]),
                              outputs[k].pages[1][2] + 1)
        /\ \A j, k \in DOMAIN outputs :
              j < k =>
                 /\ outputs[j].pages[1] # outputs[k].pages[1]
                 /\ outputs[j].pages[1][1] <= outputs[k].pages[1][1]
                 /\ outputs[j].pages[1][1] = outputs[k].pages[1][1] =>
                       FirstIndexOf(SelectedRaw(outputs[j].pages[1][1]),
                                    outputs[j].pages[1][2])
                         < FirstIndexOf(SelectedRaw(outputs[k].pages[1][1]),
                                        outputs[k].pages[1][2])
        /\ \A i \in DOMAIN files :
              {o.pages[1][2] : o \in Range(OutputsOf(i))}
                 = IF Unusable(i) THEN {} ELSE Range(SelectedRaw(i))

C14_Witness ==
    /\ Finished("split") /\ result = "fulfilled" /\ ~mergeOutputs
    /\ mode = "extract-selected"
    /\ selectedPagesInput = <<"2", ",", "1", "-", "2">>
    /\ Len(files) = 1
    /\ Filenames(outputs) = <<PageName(<<"a">>, 2), PageName(<<"a">>, 1)>>

\* C15: the k-th onProgress call reports completed = k, total = the number of
\* files and the k-th file's name; while file i is being processed exactly i - 1
\* calls have been made; a run that is not cancelled ends with one call per file.
C15_ProgressOncePerFile ==
    (op \in {"split", "merge"}) =>
        /\ Len(progress) <= Len(files)
        /\ \A k \in DOMAIN progress :
              /\ progress[k] = [completed |-> k, total |-> Len(files),
                                currentFileName |-> FileName(k)]
              /\ progress[k].completed <= progress[k].total
              /\ k > 1 => progress[k - 1].completed <= progress[k].completed
        /\ pc \in {"read", "load", "group", "copy"} =>
              Len(progress) = fileIndex - 1
        /\ (pc = "save" \/ (pc = "done" /\ abortedAt = "never")) =>
              Len(progress) = Len(files)

C15_Witness ==
    /\ pc = "done" /\ abortedAt = "never" /\ op = "split"
    /\ Len(files) = 2 /\ Len(progress) = 2
    /\ files[1].fault = "load" /\ files[2].pages = 0
    /\ result = "no-outputs"

\* ============================================================ useMergePdf ====

\* Math.min(100, Math.round((completed / total) * 100)), 0 when total is 0.
ProgressPercentOf(p) ==
    IF p.total > 0
    THEN LET rounded == (200 * p.completed + p.total) \div (2 * p.total)
         IN  IF rounded < 100 THEN rounded ELSE 100
    ELSE 0

\* The onProgress callback, run by the step of mergePdfFiles that reported.
onProgress ==
    progressPercent' =
        IF progress' # progress /\ abortControllerRef = 1
        THEN ProgressPercentOf(progress'[Len(progress')])
        ELSE progressPercent

\* handleMergePdfs past its guard: a new controller, the flags, clearResult(),
\* then mergePdfFiles up to its first await.
StartMergeRun ==
    /\ abortControllerRef' = 1
    /\ isLoading' = TRUE
    /\ progressPercent' = 0
    /\ published' = "null"
    /\ hookPc' = "running"
    /\ MergeStart
    /\ UNCHANGED <<toasts, laterVars>>

HandleMergePdfsUnguarded ==
    /\ hookPc = "ready"
    /\ StartMergeRun

handleMergePdfs ==
    /\ hookPc = "ready"
    /\ IF Len(files) < 2
       THEN /\ toasts' = Append(toasts, "need-two-files")
            /\ hookPc' = "returned"
            /\ UNCHANGED <<abortControllerRef, isLoading, progressPercent,
                           published, runVars, laterVars>>
       ELSE StartMergeRun

\* A resumption of mergePdfFiles while handleMergePdfs awaits it.
MergeStep(resumption) ==
    /\ hookPc = "running"
    /\ resumption
    /\ onProgress
    /\ UNCHANGED <<hookPc, abortControllerRef, isLoading, published, toasts,
                   laterVars>>

\* cancelProcessing: abortControllerRef.current?.abort().
cancelProcessing ==
    /\ hookPc = "running"
    /\ abortControllerRef = 1
    /\ Abort
    /\ UNCHANGED hookVars

\* handleMergePdfs after the await: the rest of the try, the catch, the finally.
MergeAwaited ==
    /\ hookPc = "running" /\ pc = "done"
    /\ LET current == abortControllerRef = 1
       IN  /\ IF result = "fulfilled"
              THEN IF current
                   THEN /\ toasts' = toasts \o [k \in DOMAIN warnings |-> "skipping"]
                                        \o <<"merged">>
                        /\ published' = "single"
                        /\ progressPercent' = 100
                   ELSE UNCHANGED <<toasts, published, progressPercent>>
              ELSE IF isAbortError(result)
              THEN /\ toasts' = IF current THEN Append(toasts, "cancelled") ELSE toasts
                   /\ UNCHANGED <<published, progressPercent>>
              ELSE /\ toasts' = Append(toasts, "failed")
                   /\ published' = "null"
                   /\ UNCHANGED progressPercent
           /\ IF current
              THEN abortControllerRef' = 0 /\ isLoading' = FALSE
              ELSE UNCHANGED <<abortControllerRef, isLoading>>
    /\ hookPc' = "returned"
    /\ UNCHANGED <<runVars, laterVars>>

MergeHookInit ==
    /\ PreviewInit
    /\ ParseUnused
    /\ UtilUnused
    /\ \E prev \in {"null", "previous"} : HookReady(prev)
    /\ files \in FileLists
    /\ MergeArguments
    /\ signalAborted = FALSE
    /\ abortedAt = "never"
    /\ pc = "idle"
    /\ fileIndex = 0
    /\ groups = <<>>
    /\ outputs = <<>>
    /\ warnings = <<>>
    /\ mergedPages = <<>>
    /\ progress = <<>>
    /\ result = "pending"
    /\ readsStarted = 0

MergeHookNext ==
    \/ handleMergePdfs /\ UNCHANGED <<previewVars, argVars, parseVars, utilVars>>
    \/ MergeStep(MergeCreated) /\ UNCHANGED <<previewVars, argVars, parseVars, utilVars>>
    \/ MergeStep(MergeRead) /\ UNCHANGED <<previewVars, argVars, parseVars, utilVars>>
    \/ MergeStep(MergeLoaded) /\ UNCHANGED <<previewVars, argVars, parseVars, utilVars>>
    \/ MergeStep(MergeCopied) /\ UNCHANGED <<previewVars, argVars, parseVars, utilVars>>
    \/ MergeStep(MergeSaved) /\ UNCHANGED <<previewVars, argVars, parseVars, utilVars>>
    \/ cancelProcessing /\ UNCHANGED <<previewVars, argVars, parseVars, utilVars>>
    \/ MergeAwaited /\ UNCHANGED <<previewVars, argVars, parseVars, utilVars>>

MergeHookSpec == MergeHookInit /\ [][MergeHookNext]_vars

\* C16: with 0 or 1 source files the merge is refused before any processing: no
\* file is read, no output document is built, no result is produced.
C16_FewerThanTwoFilesNotAttempted ==
    Len(files) < 2 =>
        /\ pc = "idle" /\ result = "pending"
        /\ readsStarted = 0
        /\ mergedPages = <<>> /\ outputs = <<>>
        /\ published # "single"
        /\ ~isLoading /\ abortControllerRef = 0
        /\ hookPc = "returned" => toasts = <<"need-two-files">>

C16_Witness ==
    /\ hookPc = "returned"
    /\ Len(files) = 1 /\ files[1].fault = "none" /\ files[1].pages = 2
    /\ toasts = <<"need-two-files">>
    /\ published = "previous"

\* ------------------------------------------------ mergePdfFiles: claims

\* A source file mergePdfFiles can take pages from: it reads, loads and copies
\* without a throw and has at least one page.
Mergeable(i) == files[i].fault = "none" /\ files[i].pages > 0
AllPagesOf(i) == [k \in 1..files[i].pages |-> <<i, k - 1>>]
MergeablePages ==
    Flatten([i \in DOMAIN files |-> IF Mergeable(i) THEN AllPagesOf(i) ELSE <<>>])

\* C17: a mergePdfFiles run that is not cancelled appends exactly the pages of
\* the mergeable files, files in list order and pages in index order; every
\* other file (zero pages, or a read / load / copy that throws) adds no page and
\* gets exactly one warning naming it; the document returned holds those pages.
C17_MergedPagesInOrder ==
    (Finished("merge") /\ abortedAt = "never") =>
        /\ mergedPages = MergeablePages
        /\ \A i \in DOMAIN files :
              /\ Mergeable(i) => MergedPagesOf(i) = AllPagesOf(i)
              /\ ~Mergeable(i) => MergedPagesOf(i) = <<>>
              /\ Len(WarningsNaming(i)) = IF Mergeable(i) THEN 0 ELSE 1
        /\ Len(warnings) = Cardinality({i \in DOMAIN files : ~Mergeable(i)})
        /\ \A k \in DOMAIN warnings :
              \E i \in DOMAIN files :
                 ~Mergeable(i) /\ warnings[k].fileName = FileName(i)
        /\ result \in {"fulfilled", "no-pages"}
        /\ result = "fulfilled" => outputs = <<Output(<<>>, MergeablePages)>>
        /\ (\E i \in DOMAIN files : Mergeable(i)) => result = "fulfilled"

C17_Witness ==
    /\ Finished("merge") /\ abortedAt = "never" /\ result = "fulfilled"
    /\ Len(files) = 2
    /\ files[1].fault = "load" /\ Mergeable(2) /\ files[2].pages = 3
    /\ Len(warnings) = 1
    /\ outputs[1].pages = <<<<2, 0>>, <<2, 1>>, <<2, 2>>>>

\* C18: a mergePdfFiles run that ends with no page appended and no abort rejects
\* with the no-pages-merged error, which is not an abort error, and returns
\* neither bytes nor warnings; it fulfils only with at least one page appended.
C18_ZeroPagesRejects ==
    Finished("merge") =>
        /\ (mergedPages = <<>> /\ ~signalAborted) =>
              /\ result = "no-pages"
              /\ ~isAbortError(result)
              /\ Returned = [outputs |-> <<>>, warnings |-> <<>>]
        /\ result = "fulfilled" =>
              /\ mergedPages # <<>>
              /\ Len(Returned.outputs) = 1
              /\ Len(Returned.outputs[1].pages) >= 1
        /\ result = "no-pages" => mergedPages = <<>>

C18_Witness ==
    /\ Finished("merge") /\ result = "no-pages" /\ abortedAt = "never"
    /\ Len(files) = 2 /\ Len(warnings) = 2 /\ Len(progress) = 2
    /\ files[1].pages = 0 /\ files[2].fault = "copy"

\* ========================================================= parsePageRanges ====
\* parsePageRanges applied to every string of at most MaxLen characters.

ParseChars == {"0", "1", "2", "-", ",", " ", "x"}
ParseInputs == UNION {[1..n -> ParseChars] : n \in 0..MaxLen}

ParseInit ==
    /\ PreviewInit
    /\ OrchestratorUnused
    /\ HookUnused
    /\ UtilUnused
    /\ parseInput \in ParseInputs
    /\ parseMaxPages \in 0..MaxPages
    /\ parseResult = ParseError(Message("not-called"))

ParseCalled == parseResult.error.kind # "not-called"

ParseCall ==
    /\ ~ParseCalled
    /\ parseResult' = parsePageRanges(parseInput, parseMaxPages)
    /\ UNCHANGED <<parseInput, parseMaxPages>>

ParseNext ==
    \/ ParseCall /\ UNCHANGED <<previewVars, argVars, runVars, hookVars, utilVars>>

ParseSpec == ParseInit /\ [][ParseNext]_vars

\* ---- the tokens of an input, read off the input by position
SegStarts(s) == {i \in 1..(Len(s) + 1) : i = 1 \/ s[i - 1] = ","}
SegEnd(s, i) ==
    CHOOSE j \in (i - 1)..Len(s) :
        /\ j = Len(s) \/ s[j + 1] = ","
        /\ \A k \in i..j : s[k] # ","
Segment(s, i) == SubSeq(s, i, SegEnd(s, i))
NonBlank(seg) == \E k \in DOMAIN seg : seg[k] # " "
Core(seg) ==
    LET ks == {k \in DOMAIN seg : seg[k] # " "}
        first == CHOOSE k \in ks : \A j \in ks : k <= j
        last == CHOOSE k \in ks : \A j \in ks : k >= j
    IN  SubSeq(seg, first, last)
TokenStarts(s) == {i \in SegStarts(s) : NonBlank(Segment(s, i))}
TokensOf(s) ==
    [n \in 1..Cardinality(TokenStarts(s)) |->
        Core(Segment(s, CHOOSE i \in TokenStarts(s) :
                            Cardinality({j \in TokenStarts(s) : j < i}) = n - 1))]

\* ---- a token's form and numbers
DashesOf(t) == {i \in DOMAIN t : t[i] = "-"}
TheDash(t) == CHOOSE i \in DashesOf(t) : TRUE
WellFormed(t) ==
    \/ AllDigits(t)
    \/ /\ Cardinality(DashesOf(t)) = 1
       /\ AllDigits(SubSeq(t, 1, TheDash(t) - 1))
       /\ AllDigits(SubSeq(t, TheDash(t) + 1, Len(t)))
TokenStart(t) ==
    IF DashesOf(t) = {} THEN Number(t) ELSE Number(SubSeq(t, 1, TheDash(t) - 1))
TokenEnd(t) ==
    IF DashesOf(t) = {} THEN Number(t) ELSE Number(SubSeq(t, TheDash(t) + 1, Len(t)))

\* The error of one token, by the order of checks that C20 states.
TokenError(t, maxPages) ==
    IF ~WellFormed(t) THEN "malformed-token"
    ELSE IF TokenStart(t) < 1 \/ TokenEnd(t) < 1 THEN "not-positive-integer"
    ELSE IF TokenStart(t) > TokenEnd(t) THEN "start-after-end"
    ELSE IF TokenEnd(t) > maxPages THEN "exceeds-page-count"
    ELSE "none"

\* C19: when parsePageRanges succeeds it returns one range per non-empty
\* comma-separated token, in input order, with the token's numbers as start and
\* end (end = start for a single number), each with 1 <= start <= end <= maxPages;
\* repeated and overlapping ranges stay as given.
C19_OneRangePerToken ==
    (ParseCalled /\ parseResult.ok) =>
        LET toks == TokensOf(parseInput)
            ranges == parseResult.ranges
        IN  /\ Len(ranges) = Len(toks)
            /\ Len(ranges) >= 1
            /\ \A k \in DOMAIN ranges :
                  /\ WellFormed(toks[k])
                  /\ ranges[k] = [start |-> TokenStart(toks[k]),
                                  end |-> TokenEnd(toks[k])]
                  /\ 1 <= ranges[k].start
                  /\ ranges[k].start <= ranges[k].end
                  /\ ranges[k].end <= parseMaxPages

C19_Witness ==
    /\ ParseCalled /\ parseResult.ok
    /\ parseInput = <<"2", ",", "1", "-", "2">>
    /\ parseResult.ranges = <<[start |-> 2, end |-> 2], [start |-> 1, end |-> 2]>>

\* C20: parsePageRanges returns ranges only when every token is valid; otherwise
\* it returns no ranges and the error of the first invalid token, classified in
\* the order malformed, not positive, start after end, exceeds page count; an
\* input without tokens gives the empty-input error.
C20_FirstInvalidTokenDecides ==
    ParseCalled =>
        LET toks == TokensOf(parseInput)
            bad == {k \in DOMAIN toks : TokenError(toks[k], parseMaxPages) # "none"}
        IN  IF toks = <<>>
            THEN parseResult = ParseError(Message("empty-input"))
            ELSE IF bad # {}
            THEN LET k == CHOOSE j \in bad : \A l \in bad : j <= l
                     kind == TokenError(toks[k], parseMaxPages)
                 IN  /\ ~parseResult.ok
                     /\ parseResult.ranges = <<>>
                     /\ parseResult.error.kind = kind
                     /\ parseResult.error.token = toks[k]
                     /\ kind = "exceeds-page-count" =>
                           parseResult.error.maxPages = parseMaxPages
            ELSE parseResult.ok /\ parseResult.error.kind = "none"

C20_Witness ==
    /\ ParseCalled
    /\ parseInput = <<"1", ",", "2", "-", "0">>
    /\ parseMaxPages = 1
    /\ parseResult = ParseError(TokenMessage("not-positive-integer",
                                             <<"2", "-", "0">>, 0))

\* ================================================ expandRangesToPageIndices ====
\* expandRangesToPageIndices applied to every list of at most MaxRanges ranges
\* that parsePageRanges can return for a file of MaxPages pages.

ValidRanges == {r \in [start : 1..MaxPages, end : 1..MaxPages] : r.start <= r.end}
RangeLists == UNION {[1..n -> ValidRanges] : n \in 0..MaxRanges}

ExpandInit ==
    /\ PreviewInit
    /\ OrchestratorUnused
    /\ HookUnused
    /\ ParseUnused
    /\ ZipUnused
    /\ PlanUnused
    /\ utilCalled = "none"
    /\ expandRanges \in RangeLists
    /\ expandDedupe \in BOOLEAN
    /\ expandResult = <<>>
    /\ groupPageCount = 0
    /\ groupChunkSize = [finite |-> TRUE, halves |-> 2]
    /\ groupResult = <<>>

ExpandCall ==
    /\ utilCalled = "none"
    /\ utilCalled' = "expandRangesToPageIndices"
    /\ expandResult' = expandRangesToPageIndices(expandRanges, expandDedupe)
    /\ UNCHANGED <<expandRanges, expandDedupe, groupPageCount, groupChunkSize,
                   groupResult, zipVars, planVars>>

ExpandNext ==
    \/ ExpandCall /\ UNCHANGED <<previewVars, argVars, runVars, hookVars, parseVars>>

ExpandSpec == ExpandInit /\ [][ExpandNext]_vars

\* ---- what C21 says the result is, read off the ranges by position
RangeLength(r) == r.end - r.start + 1
RECURSIVE SumOfLengths(_)
SumOfLengths(ranges) ==
    IF ranges = <<>> THEN 0
    ELSE SumOfLengths(SubSeq(ranges, 1, Len(ranges) - 1))
            + RangeLength(ranges[Len(ranges)])
\* The n-th index of the ranges laid end to end.
IndexAt(ranges, n) ==
    LET k == CHOOSE j \in DOMAIN ranges :
                 /\ SumOfLengths(SubSeq(ranges, 1, j - 1)) < n
                 /\ n <= SumOfLengths(SubSeq(ranges, 1, j))
    IN  ranges[k].start - 1 + (n - SumOfLengths(SubSeq(ranges, 1, k - 1)) - 1)
AllIndices(ranges) == [n \in 1..SumOfLengths(ranges) |-> IndexAt(ranges, n)]
FirstOccurrences(s) == {p \in DOMAIN s : \A q \in 1..(p - 1) : s[q] # s[p]}
WithoutRepeats(s) ==
    [n \in 1..Cardinality(FirstOccurrences(s)) |->
        s[CHOOSE p \in FirstOccurrences(s) :
              Cardinality({q \in FirstOccurrences(s) : q < p}) = n - 1]]

\* C21: without dedupe the result is the indices start-1..end-1 of each range,
\* ranges in order, repeats kept, so its length is the sum of the range lengths;
\* with dedupe it is that sequence without every later occurrence of an index.
C21_ExpandKeepsOrderAndDedupes ==
    utilCalled = "expandRangesToPageIndices" =>
        LET all == AllIndices(expandRanges)
        IN  IF expandDedupe
            THEN /\ expandResult = WithoutRepeats(all)
                 /\ Range(expandResult) = Range(all)
                 /\ \A j, k \in DOMAIN expandResult :
                       j # k => expandResult[j] # expandResult[k]
            ELSE /\ expandResult = all
                 /\ Len(expandResult) = SumOfLengths(expandRanges)

C21_Witness ==
    /\ utilCalled = "expandRangesToPageIndices"
    /\ expandDedupe
    /\ expandRanges = <<[start |-> 2, end |-> 3], [start |-> 1, end |-> 2],
                        [start |-> 3, end |-> 3]>>
    /\ expandResult = <<1, 2, 0>>

\* ===================================================== buildFixedPageGroups ====
\* buildFixedPageGroups applied to every page count up to MaxGroupPages and every
\* chunk size from -1 to MaxGroupPages + 1 in steps of one half, and NaN.

GroupChunkSizes ==
    {[finite |-> TRUE, halves |-> h] : h \in (0 - 2)..(2 * MaxGroupPages + 2)}
        \cup {[finite |-> FALSE, halves |-> 0]}

FixedGroupsInit ==
    /\ PreviewInit
    /\ OrchestratorUnused
    /\ HookUnused
    /\ ParseUnused
    /\ ZipUnused
    /\ PlanUnused
    /\ utilCalled = "none"
    /\ expandRanges = <<>>
    /\ expandDedupe = FALSE
    /\ expandResult = <<>>
    /\ groupPageCount \in 0..MaxGroupPages
    /\ groupChunkSize \in GroupChunkSizes
    /\ groupResult = <<>>

FixedGroupsCall ==
    /\ utilCalled = "none"
    /\ utilCalled' = "buildFixedPageGroups"
    /\ groupResult' = buildFixedPageGroups(groupPageCount, groupChunkSize)
    /\ UNCHANGED <<expandRanges, expandDedupe, expandResult, groupPageCount,
                   groupChunkSize, zipVars, planVars>>

FixedGroupsNext ==
    \/ FixedGroupsCall
          /\ UNCHANGED <<previewVars, argVars, runVars, hookVars, parseVars>>

FixedGroupsSpec == FixedGroupsInit /\ [][FixedGroupsNext]_vars

\* C22: with s = floor(chunkSize) >= 1, buildFixedPageGroups returns
\* ceil(pageCount / s) non-empty groups, group k holding the pages (k-1)*s ..
\* min(k*s, pageCount) - 1, so all but the last have s pages and together they
\* are 0..pageCount-1; it returns no group when pageCount = 0, s < 1 or the
\* chunk size is not finite.
C22_FixedGroupsPartitionPages ==
    utilCalled = "buildFixedPageGroups" =>
        LET s == groupChunkSize.halves \div 2
            n == groupPageCount
        IN  IF ~groupChunkSize.finite \/ s < 1 \/ n = 0
            THEN groupResult = <<>>
            ELSE /\ Len(groupResult) = CeilDiv(n, s)
                 /\ \A k \in DOMAIN groupResult :
                       /\ groupResult[k] # <<>>
                       /\ Len(groupResult[k]) <= s
                       /\ k < Len(groupResult) => Len(groupResult[k]) = s
                       /\ \A j \in DOMAIN groupResult[k] :
                             groupResult[k][j] = (k - 1) * s + j - 1
                 /\ Flatten(groupResult) = [i \in 1..n |-> i - 1]

C22_Witness ==
    /\ utilCalled = "buildFixedPageGroups"
    /\ groupPageCount = 5
    /\ groupChunkSize = [finite |-> TRUE, halves |-> 5]
    /\ groupResult = <<<<0, 1>>, <<2, 3>>, <<4>>>>

\* =============================================================== zipService ====
\* A byte is 0..255; a 32-bit word that does not fit an integer of the model
\* (a CRC) is the sequence of its 32 bits, lowest first.

\* writeUint16LE / writeUint32LE: the bytes written at offset .. offset + 1 / + 3.
writeUint16LE(value) == <<value % 256, (value \div 256) % 256>>
writeUint32LE(value) ==
    <<value % 256, (value \div 256) % 256, (value \div 65536) % 256,
      (value \div 16777216) % 256>>

\* textEncoder.encode(filename): UTF-8 of a string of BMP code points.
EncodeCodePoint(cp) ==
    IF cp < 128 THEN <<cp>>
    ELSE IF cp < 2048 THEN <<192 + (cp \div 64), 128 + (cp % 64)>>
    ELSE <<224 + (cp \div 4096), 128 + ((cp \div 64) % 64), 128 + (cp % 64)>>
textEncoder(filename) == Flatten([k \in DOMAIN filename |-> EncodeCodePoint(filename[k])])

\* ---- crc32
BitsOf(n, width) == <<>> \o [k \in 1..width |-> (n \div (2 ^ (k - 1))) % 2]
\* The 32-bit word of a byte.
Word(n) == BitsOf(n, 8) \o [k \in 1..24 |-> 0]
BitXor(a, b) == <<>> \o [k \in DOMAIN a |-> (a[k] + b[k]) % 2]
ShiftRight(c, n) == SubSeq(c, n + 1, Len(c)) \o [k \in 1..n |-> 0]
RECURSIVE ValueOfBits(_)
ValueOfBits(bits) ==
    IF bits = <<>> THEN 0 ELSE Head(bits) + 2 * ValueOfBits(Tail(bits))
\* 0xedb88320, lowest bit first.
CrcPolynomial ==
    BitsOf(33568, 16) \o BitsOf(60856, 16)
\* crcTable[n]: eight rounds of c = (c & 1) ? (0xedb88320 ^ (c >>> 1)) : (c >>> 1).
RECURSIVE CrcRounds(_, _)
CrcRounds(c, k) ==
    IF k = 0 THEN c
    ELSE CrcRounds(IF c[1] = 1 THEN BitXor(CrcPolynomial, ShiftRight(c, 1))
                   ELSE ShiftRight(c, 1), k - 1)
crcTable(n) == CrcRounds(Word(n), 8)
\* The loop of crc32 over the bytes left.
RECURSIVE CrcLoop(_, _)
CrcLoop(c, bytes) ==
    IF bytes = <<>> THEN c
    ELSE LET index == ValueOfBits(SubSeq(BitXor(c, Word(Head(bytes))), 1, 8))
         IN  CrcLoop(BitXor(crcTable(index), ShiftRight(c, 8)), Tail(bytes))
AllOnes == [k \in 1..32 |-> 1]
crc32(bytes) == BitXor(CrcLoop(AllOnes, bytes), AllOnes)
\* writeUint32LE of a word given by its bits.
WriteWordLE(bits) == [k \in 1..4 |-> ValueOfBits(SubSeq(bits, 8 * k - 7, 8 * k))]

LOCAL_HEADER_SIGNATURE == 67324752      \* 0x04034b50
CENTRAL_HEADER_SIGNATURE == 33639248    \* 0x02014b50
END_SIGNATURE == 101010256              \* 0x06054b50
VERSION == 20
LOCAL_HEADER_LENGTH == 30
CENTRAL_HEADER_LENGTH == 46
END_LENGTH == 22

\* ---- estimateZipSizeBytes
RECURSIVE ZipByteLengthFrom(_, _)
ZipByteLengthFrom(entries, totalLength) ==
    IF entries = <<>> THEN totalLength
    ELSE LET filenameLength == Len(textEncoder(Head(entries).filename))
         IN  ZipByteLengthFrom(Tail(entries),
                 totalLength + LOCAL_HEADER_LENGTH + filenameLength
                     + Len(Head(entries).data)
                     + CENTRAL_HEADER_LENGTH + filenameLength)
GetZipByteLengthNoEndRecord(entries) == ZipByteLengthFrom(entries, 0)

getZipByteLength(entries) == ZipByteLengthFrom(entries, END_LENGTH)
estimateZipSizeBytes(entries) ==
    IF Len(entries) = 0 THEN 0 ELSE getZipByteLength(entries)

\* ---- createZipBlob
PrepareEntry(entry) ==
    LET filenameBytes == textEncoder(entry.filename)
    IN  [filenameBytes |-> filenameBytes,
         data |-> entry.data,
         crc |-> crc32(entry.data),
         localHeaderLength |-> LOCAL_HEADER_LENGTH + Len(filenameBytes),
         centralHeaderLength |-> CENTRAL_HEADER_LENGTH + Len(filenameBytes),
         localOffset |-> 0]

\* preparedEntries.forEach: the offsets, and the two running lengths at the end.
RECURSIVE AssignOffsets(_, _)
AssignOffsets(prepared, localDataLength) ==
    IF prepared = <<>> THEN <<>>
    ELSE <<[Head(prepared) EXCEPT !.localOffset = localDataLength]>>
            \o AssignOffsets(Tail(prepared),
                             localDataLength + Head(prepared).localHeaderLength
                                 + Len(Head(prepared).data))
RECURSIVE LocalDataLength(_)
LocalDataLength(prepared) ==
    IF prepared = <<>> THEN 0
    ELSE Head(prepared).localHeaderLength + Len(Head(prepared).data)
            + LocalDataLength(Tail(prepared))
RECURSIVE CentralDirectoryLength(_)
CentralDirectoryLength(prepared) ==
    IF prepared = <<>> THEN 0
    ELSE Head(prepared).centralHeaderLength + CentralDirectoryLength(Tail(prepared))

\* The bytes of one local header, followed by the entry's data.
LocalRecord(entry) ==
    writeUint32LE(LOCAL_HEADER_SIGNATURE)
        \o writeUint16LE(VERSION)
        \o writeUint16LE(0) \o writeUint16LE(0) \o writeUint16LE(0) \o writeUint16LE(0)
        \o WriteWordLE(entry.crc)
        \o writeUint32LE(Len(entry.data))
        \o writeUint32LE(Len(entry.data))
        \o writeUint16LE(Len(entry.filenameBytes))
        \o writeUint16LE(0)
        \o entry.filenameBytes
        \o entry.data

CentralRecordPointsAtData(entry) ==
    writeUint32LE(CENTRAL_HEADER_SIGNATURE)
        \o writeUint16LE(VERSION) \o writeUint16LE(VERSION)
        \o writeUint16LE(0) \o writeUint16LE(0) \o writeUint16LE(0) \o writeUint16LE(0)
        \o WriteWordLE(entry.crc)
        \o writeUint32LE(Len(entry.data))
        \o writeUint32LE(Len(entry.data))
        \o writeUint16LE(Len(entry.filenameBytes))
        \o writeUint16LE(0) \o writeUint16LE(0) \o writeUint16LE(0) \o writeUint16LE(0)
        \o writeUint32LE(0)
        \o writeUint32LE(entry.localOffset + entry.localHeaderLength)
        \o entry.filenameBytes

\* The bytes of one central-directory header.
CentralRecord(entry) ==
    writeUint32LE(CENTRAL_HEADER_SIGNATURE)
        \o writeUint16LE(VERSION) \o writeUint16LE(VERSION)
        \o writeUint16LE(0) \o writeUint16LE(0) \o writeUint16LE(0) \o writeUint16LE(0)
        \o WriteWordLE(entry.crc)
        \o writeUint32LE(Len(entry.data))
        \o writeUint32LE(Len(entry.data))
        \o writeUint16LE(Len(entry.filenameBytes))
        \o writeUint16LE(0) \o writeUint16LE(0) \o writeUint16LE(0) \o writeUint16LE(0)
        \o writeUint32LE(0)
        \o writeUint32LE(entry.localOffset)
        \o entry.filenameBytes

\* The end-of-central-directory record.
EndRecord(entryCount, centralDirectoryLength, centralDirectoryOffset) ==
    writeUint32LE(END_SIGNATURE)
        \o writeUint16LE(0) \o writeUint16LE(0)
        \o writeUint16LE(entryCount)
        \o writeUint16LE(entryCount)
        \o writeUint32LE(centralDirectoryLength)
        \o writeUint32LE(centralDirectoryOffset)
        \o writeUint16LE(0)

\* createZipBlob for a non-empty list: a zeroed buffer of totalLength bytes, the
\* records written into it from offset 0 on.
createZipBlob(entries) ==
    LET preparedEntries ==
            AssignOffsets([k \in DOMAIN entries |-> PrepareEntry(entries[k])], 0)
        localDataLength == LocalDataLength(preparedEntries)
        centralDirectoryLength == CentralDirectoryLength(preparedEntries)
        totalLength == localDataLength + centralDirectoryLength + END_LENGTH
        locals == Flatten([k \in DOMAIN preparedEntries |->
                              LocalRecord(preparedEntries[k])])
        centralDirectoryOffset == Len(locals)
        centrals == Flatten([k \in DOMAIN preparedEntries |->
                                CentralRecord(preparedEntries[k])])
        written == locals \o centrals
                     \o EndRecord(Len(entries), centralDirectoryLength,
                                  centralDirectoryOffset)
    IN  [p \in 1..totalLength |-> IF p <= Len(written) THEN written[p] ELSE 0]

\* ---- the zip service applied to one entry list
\* The filenames tried: "", "a", and the euro sign (three bytes in UTF-8); the
\* data tried: no byte, the byte of "h".
ZipNames == {<<>>, <<97>>, <<8364>>}
ZipData == {<<>>, <<104>>}
ZipEntry == [filename : ZipNames, data : ZipData]
ZipEntryLists == UNION {[1..n -> ZipEntry] : n \in 0..MaxEntries}

ZipInit ==
    /\ PreviewInit
    /\ OrchestratorUnused
    /\ HookUnused
    /\ ParseUnused
    /\ utilCalled = "none"
    /\ expandRanges = <<>>
    /\ expandDedupe = FALSE
    /\ expandResult = <<>>
    /\ groupPageCount = 0
    /\ groupChunkSize = [finite |-> TRUE, halves |-> 2]
    /\ groupResult = <<>>
    /\ zipEntries \in ZipEntryLists
    /\ zipEstimate = 0 - 1
    /\ zipResult = "none"
    /\ zipBlob = <<>>
    /\ ZipCopiesUnused
    /\ PlanUnused

EstimateZipCall ==
    /\ zipEstimate < 0
    /\ zipEstimate' = estimateZipSizeBytes(zipEntries)
    /\ UNCHANGED <<zipEntries, zipResult, zipBlob, zipCopies, zipHeaders, zipEnd>>

CreateZipCall ==
    /\ zipResult = "none"
    /\ IF Len(zipEntries) = 0
       THEN zipResult' = "throw" /\ zipBlob' = <<>>
       ELSE zipResult' = "blob" /\ zipBlob' = <<>> \o createZipBlob(zipEntries)
    /\ UNCHANGED <<zipEntries, zipEstimate, zipCopies, zipHeaders, zipEnd>>

UtilArgsUnchanged ==
    UNCHANGED <<utilCalled, expandRanges, expandDedupe, expandResult,
                groupPageCount, groupChunkSize, groupResult, planVars>>

ZipNext ==
    \/ EstimateZipCall /\ UtilArgsUnchanged
          /\ UNCHANGED <<previewVars, argVars, runVars, hookVars, parseVars>>
    \/ CreateZipCall /\ UtilArgsUnchanged
          /\ UNCHANGED <<previewVars, argVars, runVars, hookVars, parseVars>>

ZipSpec == ZipInit /\ [][ZipNext]_vars

\* C23: for a non-empty entry list estimateZipSizeBytes returns the byte length
\* of the blob createZipBlob returns, which is 22 plus, per entry, 30 + filename
\* bytes + data bytes + 46 + filename bytes.
EntrySize(e) ==
    30 + Len(textEncoder(e.filename)) + Len(e.data) + 46 + Len(textEncoder(e.filename))
RECURSIVE SumOfSizes(_)
SumOfSizes(entries) ==
    IF entries = <<>> THEN 0
    ELSE SumOfSizes(SubSeq(entries, 1, Len(entries) - 1))
            + EntrySize(entries[Len(entries)])
C23_EstimateEqualsBlobLength ==
    (zipEntries # <<>>) =>
        /\ zipEstimate >= 0 => zipEstimate = 22 + SumOfSizes(zipEntries)
        /\ zipResult # "none" =>
              zipResult = "blob" /\ Len(zipBlob) = 22 + SumOfSizes(zipEntries)
        /\ (zipEstimate >= 0 /\ zipResult # "none") => zipEstimate = Len(zipBlob)

C23_Witness ==
    /\ Len(zipEntries) = 3
    /\ zipEntries[1].filename = <<8364>> /\ zipEntries[1].data = <<104>>
    /\ zipEntries[2].filename = <<97>> /\ zipEntries[2].data = <<>>
    /\ zipEntries[3].filename = <<>> /\ zipEntries[3].data = <<104>>
    /\ zipResult = "blob"
    /\ zipEstimate = Len(zipBlob)
    /\ zipEstimate = 260

\* ---- reading a blob back
ReadUint16LE(bytes, offset) == bytes[offset + 1] + 256 * bytes[offset + 2]
ReadUint32LE(bytes, offset) ==
    bytes[offset + 1] + 256 * bytes[offset + 2] + 65536 * bytes[offset + 3]
        + 16777216 * bytes[offset + 4]
NameBytes(e) == Len(textEncoder(e.filename))
\* The bytes the first n entries take as local header and data / in the directory.
RECURSIVE LocalBytesBefore(_, _)
LocalBytesBefore(entries, n) ==
    IF n = 0 THEN 0
    ELSE LocalBytesBefore(entries, n - 1) + 30 + NameBytes(entries[n])
            + Len(entries[n].data)
RECURSIVE CentralBytesBefore(_, _)
CentralBytesBefore(entries, n) ==
    IF n = 0 THEN 0
    ELSE CentralBytesBefore(entries, n - 1) + 46 + NameBytes(entries[n])
\* The offset of the end record, of the directory, of entry i's directory header.
EndAt(bytes) == Len(bytes) - 22
DirectoryAt(entries) == LocalBytesBefore(entries, Len(entries))
DirectoryHeaderAt(entries, i) == DirectoryAt(entries) + CentralBytesBefore(entries, i - 1)
RecordedOffset(bytes, entries, i) ==
    ReadUint32LE(bytes, DirectoryHeaderAt(entries, i) + 42)
LocalSignature == <<80, 75, 3, 4>>

\* C25: a blob of createZipBlob starts with 50 4B 03 04; the local-header offset
\* recorded in entry i's directory header is the sum of 30 + filename bytes +
\* data bytes over the entries before i, and a local header signature stands
\* there; the end record's directory offset is the length of all local entries,
\* its directory size the sum of 46 + filename bytes, and offset + size + 22 is
\* the length of the blob.
C25_OffsetsMatchLayout ==
    zipResult = "blob" =>
        /\ SubSeq(zipBlob, 1, 4) = LocalSignature
        /\ \A i \in DOMAIN zipEntries :
              /\ RecordedOffset(zipBlob, zipEntries, i)
                    = LocalBytesBefore(zipEntries, i - 1)
              /\ SubSeq(zipBlob, RecordedOffset(zipBlob, zipEntries, i) + 1,
                        RecordedOffset(zipBlob, zipEntries, i) + 4) = LocalSignature
        /\ ReadUint32LE(zipBlob, EndAt(zipBlob) + 16) = DirectoryAt(zipEntries)
        /\ ReadUint32LE(zipBlob, EndAt(zipBlob) + 12)
              = CentralBytesBefore(zipEntries, Len(zipEntries))
        /\ ReadUint32LE(zipBlob, EndAt(zipBlob) + 16)
              + ReadUint32LE(zipBlob, EndAt(zipBlob) + 12) + 22 = Len(zipBlob)

C25_Witness ==
    /\ zipResult = "blob"
    /\ zipEntries = <<[filename |-> <<8364>>, data |-> <<104>>],
                      [filename |-> <<97>>, data |-> <<>>],
                      [filename |-> <<97>>, data |-> <<104>>]>>
    /\ RecordedOffset(zipBlob, zipEntries, 3) = 65
    /\ ReadUint32LE(zipBlob, EndAt(zipBlob) + 16) = 97

\* ============================================ createZipBlob, many entries ====
\* createZipBlob applied to a list of zipCopies entries, each the entry
\* {filename: 'a', data: no bytes}. Every loop runs entries.length times over
\* equal entries, so the running lengths are multiples of one entry's lengths;
\* of the blob only the end record and the numbers of headers written are kept.

CopiedEntry == PrepareEntry([filename |-> <<97>>, data |-> <<>>])

ZipCopiesInit ==
    /\ PreviewInit
    /\ OrchestratorUnused
    /\ HookUnused
    /\ ParseUnused
    /\ utilCalled = "none"
    /\ expandRanges = <<>>
    /\ expandDedupe = FALSE
    /\ expandResult = <<>>
    /\ groupPageCount = 0
    /\ groupChunkSize = [finite |-> TRUE, halves |-> 2]
    /\ groupResult = <<>>
    /\ zipEntries = <<>>
    /\ zipEstimate = 0 - 1
    /\ zipResult = "none"
    /\ zipBlob = <<>>
    /\ zipCopies \in 1..MaxCopies
    /\ PlanUnused
    /\ zipHeaders = [local |-> 0, central |-> 0]
    /\ zipEnd = <<>>

CreateZipOfCopies ==
    /\ zipResult = "none"
    /\ zipResult' = "blob"
    /\ LET localDataLength ==
               zipCopies * (CopiedEntry.localHeaderLength + Len(CopiedEntry.data))
           centralDirectoryLength == zipCopies * CopiedEntry.centralHeaderLength
       IN  /\ zipHeaders' = [local |-> zipCopies, central |-> zipCopies]
           /\ zipEnd' = EndRecord(zipCopies, centralDirectoryLength, localDataLength)
    /\ UNCHANGED <<zipEntries, zipEstimate, zipBlob, zipCopies>>

ZipCopiesNext ==
    \/ CreateZipOfCopies /\ UtilArgsUnchanged
          /\ UNCHANGED <<previewVars, argVars, runVars, hookVars, parseVars>>

ZipCopiesSpec == ZipCopiesInit /\ [][ZipCopiesNext]_vars

\* C24: both entry-count fields of the end record hold the number of entries
\* given to createZipBlob, and that many local and central headers are written.
C24_DeclaredCountIsEntryCount ==
    (zipResult = "blob" /\ zipCopies > 0) =>
        /\ ReadUint16LE(zipEnd, 8) = zipCopies
        /\ ReadUint16LE(zipEnd, 10) = zipCopies
        /\ zipHeaders = [local |-> zipCopies, central |-> zipCopies]

\* ================================================ createSplitPlannedSummary ====
\* The split page computes the planned summary from the file list and the
\* settings while there is no result; the file's own size estimate is left out.

MAX_SUMMARY_NAMES == 20

expandRange(start, end) == [k \in 1..(end - start + 1) |-> start + k - 2]

\* pushOutputName for each of the names, in order.
RECURSIVE PushOutputNames(_, _)
PushOutputNames(acc, names) ==
    IF names = <<>> THEN acc
    ELSE PushOutputNames(
             IF Len(acc.outputNames) < MAX_SUMMARY_NAMES
             THEN [acc EXCEPT !.outputNames = Append(@, Head(names))]
             ELSE [acc EXCEPT !.hiddenOutputNameCount = @ + 1],
             Tail(names))

RECURSIVE SelectedPageCount(_)
SelectedPageCount(pageGroups) ==
    IF pageGroups = <<>> THEN 0
    ELSE Len(Head(pageGroups)) + SelectedPageCount(Tail(pageGroups))

\* The end of the forEach callback: the page groups are counted.
CountGroups(acc, pageGroups, merge) ==
    IF SelectedPageCount(pageGroups) <= 0 THEN acc
    ELSE [acc EXCEPT !.hasAnySelectedPages = TRUE,
                     !.totalOutputCount = @ + (IF merge THEN 0 ELSE Len(pageGroups))]

\* The forEach callback for file i (1-based) of pdfFiles.
PlanFile(acc, pdfFiles, i, splitMode, rangeIn, selectedIn, chunk, merge) ==
    LET pageCount == pdfFiles[i].pages
        prefix == outputPrefix(i, Len(pdfFiles))
        invalid == [acc EXCEPT !.invalidInputFiles = @ + 1]
        Named(names) == IF merge THEN acc ELSE PushOutputNames(acc, names)
    IN  IF pageCount < 1 THEN acc
        ELSE CASE splitMode = "range" ->
                    LET parsed == parsePageRanges(rangeIn, pageCount)
                    IN  IF ~parsed.ok THEN invalid
                        ELSE CountGroups(
                                 Named([k \in DOMAIN parsed.ranges |->
                                          PagesName(prefix, parsed.ranges[k].start,
                                                    parsed.ranges[k].end)]),
                                 [k \in DOMAIN parsed.ranges |->
                                    expandRange(parsed.ranges[k].start,
                                                parsed.ranges[k].end)],
                                 merge)
               [] splitMode = "fixed" ->
                    LET pageGroups == buildFixedPageGroups(pageCount, chunk)
                    IN  IF Len(pageGroups) = 0 THEN invalid
                        ELSE CountGroups(
                                 Named([k \in DOMAIN pageGroups |-> PartName(prefix, k)]),
                                 pageGroups, merge)
               [] splitMode = "extract-all" ->
                    CountGroups(Named([k \in 1..pageCount |-> PageName(prefix, k)]),
                                [k \in 1..pageCount |-> <<k - 1>>], merge)
               [] OTHER ->
                    LET parsed == parsePageRanges(selectedIn, pageCount)
                        indices == expandRangesToPageIndices(parsed.ranges, TRUE)
                    IN  IF ~parsed.ok THEN invalid
                        ELSE IF Len(indices) = 0 THEN acc
                        ELSE CountGroups(
                                 Named([k \in DOMAIN indices |->
                                          PageName(prefix, indices[k] + 1)]),
                                 IF merge THEN <<indices>>
                                 ELSE [k \in DOMAIN indices |-> <<indices[k]>>],
                                 merge)

RECURSIVE PlanFiles(_, _, _, _, _, _, _, _)
PlanFiles(acc, pdfFiles, i, splitMode, rangeIn, selectedIn, chunk, merge) ==
    IF i > Len(pdfFiles) THEN acc
    ELSE PlanFiles(PlanFile(acc, pdfFiles, i, splitMode, rangeIn, selectedIn, chunk, merge),
                   pdfFiles, i + 1, splitMode, rangeIn, selectedIn, chunk, merge)

\* After the forEach: the merged output, the note and the returned summary.
PlannedSummaryCountsGroups(acc, merge) ==
    [phase |-> "planned",
     outputCount |-> acc.totalOutputCount,
     outputNames |-> acc.outputNames,
     hiddenOutputNameCount |-> acc.hiddenOutputNameCount,
     zipAvailable |-> ~merge /\ acc.totalOutputCount > 1,
     note |-> "estimate"]

PlannedSummary(acc, merge) ==
    LET totalOutputCount ==
            IF merge THEN (IF acc.hasAnySelectedPages THEN 1 ELSE 0)
            ELSE acc.totalOutputCount
    IN  [phase |-> "planned",
         outputCount |-> totalOutputCount,
         outputNames |-> IF merge /\ acc.hasAnySelectedPages
                         THEN Append(acc.outputNames, SplitOutputName)
                         ELSE acc.outputNames,
         hiddenOutputNameCount |-> acc.hiddenOutputNameCount,
         zipAvailable |-> ~merge /\ totalOutputCount > 1,
         note |-> IF ~acc.hasAnySelectedPages THEN "no-outputs"
                  ELSE IF acc.invalidInputFiles > 0 THEN "not-all-files"
                  ELSE "estimate"]

createSplitPlannedSummary(pdfFiles, splitMode, rangeIn, selectedIn, chunk, merge) ==
    IF Len(pdfFiles) = 0 THEN [NoSummary EXCEPT !.phase = "null"]
    ELSE PlannedSummary(
             PlanFiles([outputNames |-> <<>>, hiddenOutputNameCount |-> 0,
                        totalOutputCount |-> 0, hasAnySelectedPages |-> FALSE,
                        invalidInputFiles |-> 0],
                       pdfFiles, 1, splitMode, rangeIn, selectedIn, chunk, merge),
             merge)

\* The files of a planned split: short ones and one long enough for two of
\* them to give more outputs than the summary names.
PlanFileDescriptors ==
    {[pages |-> p, fault |-> "none"] : p \in {0, 1, 2, MaxPlanPages}}
        \cup {[pages |-> 1, fault |-> f] : f \in {"read", "load", "copy"}}
PlanFileLists == UNION {[1..n -> PlanFileDescriptors] : n \in 0..MaxFiles}

PlanInit ==
    /\ PreviewInit
    /\ HookUnused
    /\ ParseUnused
    /\ UtilUnused
    /\ files \in PlanFileLists
    /\ SplitArguments
    /\ signalAborted = FALSE
    /\ abortedAt = "never"
    /\ pc = "idle"
    /\ fileIndex = 0
    /\ groups = <<>>
    /\ outputs = <<>>
    /\ warnings = <<>>
    /\ mergedPages = <<>>
    /\ progress = <<>>
    /\ result = "pending"
    /\ readsStarted = 0

\* The page renders: useMemo computes the summary of the current settings.
RenderSummary ==
    /\ plannedSummary = NoSummary
    /\ plannedSummary' = createSplitPlannedSummary(files, mode, rangeInput,
                                                   selectedPagesInput,
                                                   fixedChunkSize, mergeOutputs)
    /\ UNCHANGED <<utilCalled, expandRanges, expandDedupe, expandResult,
                   groupPageCount, groupChunkSize, groupResult, zipVars>>

\* The split is started from the rendered page; the signal is never aborted.
PlanNext ==
    \/ RenderSummary /\ UNCHANGED <<previewVars, argVars, runVars, hookVars, parseVars>>
    \/ SplitStart /\ plannedSummary # NoSummary
          /\ UNCHANGED <<previewVars, argVars, hookVars, parseVars, utilVars>>
    \/ SplitCreated /\ UNCHANGED <<previewVars, argVars, hookVars, parseVars, utilVars>>
    \/ SplitRead /\ UNCHANGED <<previewVars, argVars, hookVars, parseVars, utilVars>>
    \/ SplitLoaded /\ UNCHANGED <<previewVars, argVars, hookVars, parseVars, utilVars>>
    \/ SplitGroupDone /\ UNCHANGED <<previewVars, argVars, hookVars, parseVars, utilVars>>
    \/ SplitSaved /\ UNCHANGED <<previewVars, argVars, hookVars, parseVars, utilVars>>

PlanSpec == PlanInit /\ [][PlanNext]_vars

FirstNames(outs, n) ==
    [k \in 1..(IF Len(outs) < n THEN Len(outs) ELSE n) |-> outs[k].filename]
SummaryMatches(outs) ==
    /\ plannedSummary.phase = "planned"
    /\ plannedSummary.outputCount = Len(outs)
    /\ plannedSummary.outputNames = FirstNames(outs, 20)
    /\ plannedSummary.zipAvailable = (Len(outs) > 1)
NoFileFails == \A i \in DOMAIN files : files[i].fault = "none"

C27_ResolvedWithOwnPreview ==
    \A r \in Requests : \A i \in DOMAIN calls[r] :
        calls[r][i].kind = "resolve" =>
            calls[r][i].url \in {r, FALLBACK_PREVIEW_URL}

\* C28: without cleanupPdfPreviewWorker, a buffer is posted to the worker only
\* for the request taken from the head of the queue, in the order of the
\* generatePdfPreview calls, after every earlier request has been settled.
C28_PostedInOrderOneAtATime ==
    [][\A r \in posted' \ posted :
          /\ \A q \in 1..(r - 1) : Settled(q)
          /\ \A q \in (r + 1)..MaxRequests : q \notin posted /\ ~Settled(q)]_vars

\* ------------------------------------------- split: names of the outputs ----

\* C29: the filenames of the outputs of a fulfilled splitPdfFiles call are
\* pairwise distinct.
C29_OutputNamesDistinct ==
    (Finished("split") /\ result = "fulfilled") =>
        \A j, k \in DOMAIN outputs :
            j # k => outputs[j].filename # outputs[k].filename

\* ===================================== useSplitPdf / useMergePdf: reentrancy ====
\* The handler of a hook is invoked while its earlier run is at the await of
\* the service call. The earlier run holds controller 1 and runs the service
\* step by step; the later run holds controller 2 and its service call is kept
\* by what the handler sees of it: onProgress calls and how the promise settles.

\* useSplitPdf.handleSplitPdf past its guards: a new controller, the flags,
\* clearResult(), then splitPdfFiles up to its first await.
StartSplitRun ==
    /\ abortControllerRef' = 1
    /\ isLoading' = TRUE
    /\ progressPercent' = 0
    /\ published' = "null"
    /\ hookPc' = "running"
    /\ SplitStart
    /\ UNCHANGED <<toasts, laterVars>>

\* splitMode === 'fixed' && (!Number.isFinite(fixedChunkSize) || fixedChunkSize < 1)
InvalidChunkSize(md, chunk) == md = "fixed" /\ (~chunk.finite \/ chunk.halves < 2)

handleSplitPdf ==
    /\ hookPc = "ready"
    /\ op = "split"
    /\ IF Len(files) = 0 \/ InvalidChunkSize(mode, fixedChunkSize)
       THEN /\ toasts' = Append(toasts, IF Len(files) = 0 THEN "need-one-file"
                                        ELSE "chunk-size")
            /\ hookPc' = "returned"
            /\ UNCHANGED <<abortControllerRef, isLoading, progressPercent,
                           published, runVars, laterVars>>
       ELSE StartSplitRun

\* A resumption of splitPdfFiles while handleSplitPdf awaits it.
SplitStep(resumption) ==
    /\ hookPc = "running"
    /\ resumption
    /\ onProgress
    /\ UNCHANGED <<hookPc, abortControllerRef, isLoading, published, toasts,
                   laterVars>>

\* handleSplitPdf after the await: the rest of the try, the catch, the finally.
SplitAwaitedUnguarded ==
    /\ op = "split"
    /\ hookPc = "running" /\ pc = "done"
    /\ IF result = "fulfilled"
       THEN /\ toasts' = Append(toasts, "split-completed")
            /\ published' = IF Len(outputs) = 1 THEN "single" ELSE "multi"
            /\ progressPercent' = 100
       ELSE UNCHANGED <<toasts, published, progressPercent>>
    /\ IF abortControllerRef = 1
       THEN abortControllerRef' = 0 /\ isLoading' = FALSE
       ELSE UNCHANGED <<abortControllerRef, isLoading>>
    /\ hookPc' = "returned"
    /\ UNCHANGED <<runVars, laterVars>>

SplitAwaited ==
    /\ op = "split"
    /\ hookPc = "running" /\ pc = "done"
    /\ LET current == abortControllerRef = 1
       IN  /\ IF result = "fulfilled"
              THEN IF current
                   THEN /\ toasts' = toasts \o [k \in DOMAIN warnings |-> "warning"]
                                        \o <<"split-completed">>
                        /\ published' = IF Len(outputs) = 1 THEN "single" ELSE "multi"
                        /\ progressPercent' = 100
                   ELSE UNCHANGED <<toasts, published, progressPercent>>
              ELSE IF isAbortError(result)
              THEN /\ toasts' = IF current THEN Append(toasts, "cancelled") ELSE toasts
                   /\ UNCHANGED <<published, progressPercent>>
              ELSE /\ toasts' = Append(toasts, "failed")
                   /\ published' = "null"
                   /\ UNCHANGED progressPercent
           /\ IF current
              THEN abortControllerRef' = 0 /\ isLoading' = FALSE
              ELSE UNCHANGED <<abortControllerRef, isLoading>>
    /\ hookPc' = "returned"
    /\ UNCHANGED <<runVars, laterVars>>

\* The handler is invoked again, with the file list and the settings of that
\* moment: it returns at a guard, or aborts the controller the ref holds and
\* starts the later run.
InvokeAgain ==
    /\ hookPc = "running" /\ pc # "done"
    /\ laterPc = "idle"
    /\ \E fileCount \in 0..MaxFiles, md \in Modes, chunk \in ChunkSizes :
          IF \/ op = "merge" /\ fileCount < 2
             \/ op = "split" /\ (fileCount = 0 \/ InvalidChunkSize(md, chunk))
          THEN /\ toasts' = Append(toasts, "refused")
               /\ laterPc' = "refused"
               /\ UNCHANGED <<abortControllerRef, isLoading, progressPercent,
                              published, signalAborted, abortedAt>>
          ELSE /\ signalAborted' = (signalAborted \/ abortControllerRef = 1)
               /\ abortedAt' = IF ~signalAborted /\ abortControllerRef = 1 THEN pc
                               ELSE abortedAt
               /\ abortControllerRef' = 2
               /\ isLoading' = TRUE
               /\ progressPercent' = 0
               /\ published' = "null"
               /\ laterPc' = "running"
               /\ UNCHANGED toasts
    /\ UNCHANGED <<hookPc, laterAborted, pc, fileIndex, groups, outputs, warnings,
                   mergedPages, progress, result, readsStarted>>

\* The later run's service reports the first of two files.
LaterProgress ==
    /\ laterPc = "running"
    /\ progressPercent' = IF abortControllerRef = 2
                          THEN ProgressPercentOf([completed |-> 1, total |-> 2])
                          ELSE progressPercent
    /\ UNCHANGED <<hookPc, abortControllerRef, isLoading, published, toasts,
                   laterVars, runVars>>

\* cancelProcessing while the ref holds the later run's controller.
CancelLater ==
    /\ laterPc = "running"
    /\ abortControllerRef = 2
    /\ ~laterAborted
    /\ laterAborted' = TRUE
    /\ UNCHANGED <<hookPc, abortControllerRef, isLoading, progressPercent,
                   published, toasts, laterPc, runVars>>

\* The later run's service call settles and its handler runs to the end.
LaterAwaited ==
    /\ laterPc = "running"
    /\ \E res \in {"fulfilled", "error"} \cup (IF laterAborted THEN {"abort"} ELSE {}) :
          LET current == abortControllerRef = 2
          IN  /\ IF res = "fulfilled"
                 THEN IF current
                      THEN /\ toasts' = Append(toasts, "later-completed")
                           /\ published' \in (IF op = "split" THEN {"single", "multi"}
                                              ELSE {"single"})
                           /\ progressPercent' = 100
                      ELSE UNCHANGED <<toasts, published, progressPercent>>
                 ELSE IF isAbortError(res)
                 THEN /\ toasts' = IF current THEN Append(toasts, "later-cancelled")
                                   ELSE toasts
                      /\ UNCHANGED <<published, progressPercent>>
                 ELSE /\ toasts' = Append(toasts, "later-failed")
                      /\ published' = "null"
                      /\ UNCHANGED progressPercent
              /\ IF current
                 THEN abortControllerRef' = 0 /\ isLoading' = FALSE
                 ELSE UNCHANGED <<abortControllerRef, isLoading>>
    /\ laterPc' = "returned"
    /\ UNCHANGED <<hookPc, laterAborted, runVars>>

\* The files and settings of the earlier run.
ReentryFileDescriptors ==
    {[pages |-> 0, fault |-> "none"], [pages |-> 2, fault |-> "none"],
     [pages |-> 1, fault |-> "load"]}
ReentryFileLists == UNION {[1..n -> ReentryFileDescriptors] : n \in 0..MaxFiles}

ReentryInit ==
    /\ PreviewInit
    /\ ParseUnused
    /\ UtilUnused
    /\ HookReady("previous")
    /\ files \in ReentryFileLists
    /\ SplitArguments \/ MergeArguments
    /\ signalAborted = FALSE
    /\ abortedAt = "never"
    /\ pc = "idle"
    /\ fileIndex = 0
    /\ groups = <<>>
    /\ outputs = <<>>
    /\ warnings = <<>>
    /\ mergedPages = <<>>
    /\ progress = <<>>
    /\ result = "pending"
    /\ readsStarted = 0

ReentryNext ==
    \/ handleMergePdfs /\ op = "merge"
          /\ UNCHANGED <<previewVars, argVars, parseVars, utilVars>>
    \/ handleSplitPdf /\ UNCHANGED <<previewVars, argVars, parseVars, utilVars>>
    \/ MergeStep(MergeCreated) /\ UNCHANGED <<previewVars, argVars, parseVars, utilVars>>
    \/ MergeStep(MergeRead) /\ UNCHANGED <<previewVars, argVars, parseVars, utilVars>>
    \/ MergeStep(MergeLoaded) /\ UNCHANGED <<previewVars, argVars, parseVars, utilVars>>
    \/ MergeStep(MergeCopied) /\ UNCHANGED <<previewVars, argVars, parseVars, utilVars>>
    \/ MergeStep(MergeSaved) /\ UNCHANGED <<previewVars, argVars, parseVars, utilVars>>
    \/ SplitStep(SplitCreated) /\ UNCHANGED <<previewVars, argVars, parseVars, utilVars>>
    \/ SplitStep(SplitRead) /\ UNCHANGED <<previewVars, argVars, parseVars, utilVars>>
    \/ SplitStep(SplitLoaded) /\ UNCHANGED <<previewVars, argVars, parseVars, utilVars>>
    \/ SplitStep(SplitGroupDone) /\ UNCHANGED <<previewVars, argVars, parseVars, utilVars>>
    \/ SplitStep(SplitSaved) /\ UNCHANGED <<previewVars, argVars, parseVars, utilVars>>
    \/ cancelProcessing /\ UNCHANGED <<previewVars, argVars, parseVars, utilVars>>
    \/ MergeAwaited /\ op = "merge"
          /\ UNCHANGED <<previewVars, argVars, parseVars, utilVars>>
    \/ SplitAwaited /\ UNCHANGED <<previewVars, argVars, parseVars, utilVars>>
    \/ InvokeAgain /\ UNCHANGED <<previewVars, argVars, parseVars, utilVars>>
    \/ LaterProgress /\ UNCHANGED <<previewVars, argVars, parseVars, utilVars>>
    \/ CancelLater /\ UNCHANGED <<previewVars, argVars, parseVars, utilVars>>
    \/ LaterAwaited /\ UNCHANGED <<previewVars, argVars, parseVars, utilVars>>

ReentrySpec == ReentryInit /\ [][ReentryNext]_vars

\* A step of the earlier run: its service call or its handler moves.
EarlierRunMoves ==
    <<hookPc, pc, fileIndex, groups, outputs, warnings, mergedPages, progress,
      result>>' #
    <<hookPc, pc, fileIndex, groups, outputs, warnings, mergedPages, progress,
      result>>
LaterRunStarted == laterPc \in {"running", "returned"}

\* C30: when the handler is invoked again during an earlier run and passes its
\* guards, the earlier run's signal is aborted; from then on no step of the
\* earlier run, however it ends, changes the published result, the progress or
\* the loading flag; and the loading flag goes to false only in the step that
\* ends the latest run.
C30_SupersededRunIsSilent ==
    [][/\ (laterPc = "idle" /\ laterPc' = "running") => signalAborted'
       /\ (LaterRunStarted /\ EarlierRunMoves) =>
             UNCHANGED <<published, progressPercent, isLoading>>
       /\ (isLoading /\ ~isLoading') =>
             IF LaterRunStarted THEN laterPc = "running" /\ laterPc' = "returned"
             ELSE hookPc = "running" /\ hookPc' = "returned"]_vars

\* The earlier split fulfilled after it was superseded (aborted while the merged
\* document was saved) and returned without publishing; the later run goes on.
C30_Witness ==
    /\ op = "split" /\ hookPc = "returned" /\ result = "fulfilled"
    /\ signalAborted /\ abortedAt = "save"
    /\ laterPc = "running" /\ abortControllerRef = 2
    /\ isLoading /\ published = "null" /\ progressPercent = 50

\* C30 as stated: every second invocation counts, one that returns at a guard
\* included.
C30_AsStated ==
    [][/\ (laterPc = "idle" /\ laterPc' # "idle") => signalAborted'
       /\ (laterPc # "idle" /\ EarlierRunMoves) =>
             UNCHANGED <<published, progressPercent, isLoading>>
       /\ (isLoading /\ ~isLoading') =>
             IF laterPc # "idle" THEN laterPc = "running" /\ laterPc' = "returned"
             ELSE hookPc = "running" /\ hookPc' = "returned"]_vars

====
